---------------------------- MODULE Spec2Model ----------------------------
(***************************************************************************)
(* The tabular query and analysis engine of the data-insights tools:       *)
(* tools/data_tools.py and tools/advanced_data_tools.py.                   *)
(*                                                                         *)
(* Command strings are TLA+ strings and the regular expressions of the     *)
(* code are matched on their characters.  A table is a record of column    *)
(* names, column dtypes and rows; a row keeps its pandas index label.      *)
(***************************************************************************)
EXTENDS Integers, Sequences, FiniteSets, TLC

VARIABLES
    df,         \* the session's table, handed to every call
    pc,         \* "idle": no call in progress; "done": a call has returned
    op,         \* the name of the function that was called
    query,      \* the command string of the call
    conds,      \* the condition list of the call (multi_condition_filter)
    logic,      \* the logic argument of the call (multi_condition_filter)
    clauses,    \* the clauses the caller wrote the command from
    args,       \* the other arguments of the call, by name
    result,     \* what the call returned or raised
    record,     \* the dict a statistics call returned
    reply,      \* the text a tool of the agent returned
    parsed      \* the operations dict built by parse_natural_language_query

vars == <<df, pc, op, query, clauses, args, conds, logic, result, record, reply, parsed>>

---------------------------------------------------------------------------
(* Bounds of the model *)

\* the longest table: number of rows
MaxRows == 3

\* the longest sample: number of values
MaxSample == 4

\* the longest command: number of clauses written one after the other
MaxClauses == 3

\* the longest condition list handed to multi_condition_filter
MaxConds == 2

\* the most columns in an aggregations dict handed to advanced_group_by
MaxAggs == 2

\* the longest text handed to parse_text_to_dataframe, in lines
MaxLines == 4

\* the longest text handed to extract_dataframe_from_result, in lines
MaxExtractLines == 2

---------------------------------------------------------------------------
(* Characters and strings *)

Ch(s, i) == SubSeq(s, i, i)

DigitSeq == "0123456789"
UpperSeq == "ABCDEFGHIJKLMNOPQRSTUVWXYZ"
LowerSeq == "abcdefghijklmnopqrstuvwxyz"

CharsOf(s) == {Ch(s, i) : i \in 1..Len(s)}

\* \d of the re module
DigitChars == CharsOf(DigitSeq)
\* \w of the re module
WordChars == CharsOf(DigitSeq) \cup CharsOf(UpperSeq) \cup CharsOf(LowerSeq) \cup {"_"}
\* \s of the re module
SpaceChars == {" ", "\t", "\n", "\r"}
\* [\d.]
NumChars == DigitChars \cup {"."}
\* [\w\s]
WordSpaceChars == WordChars \cup SpaceChars

IndexIn(seq, c) == CHOOSE i \in 1..Len(seq) : Ch(seq, i) = c

UpperChars == CharsOf(UpperSeq)
LowerOfUpper == [c \in UpperChars |-> Ch(LowerSeq, IndexIn(UpperSeq, c))]

\* str.lower() on one character
LowerCh(c) == IF c \in UpperChars THEN LowerOfUpper[c] ELSE c

RECURSIVE Lower(_)
\* str.lower()
Lower(s) == IF s = "" THEN "" ELSE LowerCh(Head(s)) \o Lower(Tail(s))

LowerChars == CharsOf(LowerSeq)
UpperOfLower == [c \in LowerChars |-> Ch(UpperSeq, IndexIn(LowerSeq, c))]

RECURSIVE Upper(_)
\* str.upper()
Upper(s) ==
    IF s = "" THEN ""
    ELSE (IF Head(s) \in LowerChars THEN UpperOfLower[Head(s)] ELSE Head(s)) \o Upper(Tail(s))

\* sub in s
Contains(s, sub) ==
    \E i \in 1..(Len(s) - Len(sub) + 1) : SubSeq(s, i, i + Len(sub) - 1) = sub

\* the literal lit stands in s at position i
StartsAt(s, i, lit) ==
    /\ i + Len(lit) - 1 <= Len(s)
    /\ SubSeq(s, i, i + Len(lit) - 1) = lit

RECURSIVE SpanEnd(_, _, _)
\* the last position of the longest run of characters of cls that starts at
\* position i of s (a greedy cls*); i - 1 when the run is empty
SpanEnd(s, i, cls) ==
    IF i <= Len(s) /\ Ch(s, i) \in cls THEN SpanEnd(s, i + 1, cls) ELSE i - 1

RECURSIVE Strip(_)
\* str.strip(): white space removed at both ends
Strip(s) ==
    IF s = "" THEN ""
    ELSE IF Head(s) \in SpaceChars THEN Strip(Tail(s))
    ELSE IF Ch(s, Len(s)) \in SpaceChars THEN Strip(SubSeq(s, 1, Len(s) - 1))
    ELSE s

SetMin(S) == CHOOSE x \in S : \A y \in S : x <= y

DigitValue == [c \in DigitChars |-> IndexIn(DigitSeq, c) - 1]

RECURSIVE StrToNat(_)
\* int() of a string of digits
StrToNat(s) ==
    IF s = "" THEN 0
    ELSE 10 * StrToNat(SubSeq(s, 1, Len(s) - 1)) + DigitValue[Ch(s, Len(s))]

RECURSIVE NatToStr(_)
\* str() of a natural number
NatToStr(n) ==
    IF n < 10 THEN Ch(DigitSeq, n + 1)
    ELSE NatToStr(n \div 10) \o Ch(DigitSeq, (n % 10) + 1)

RECURSIVE Pow10(_)
Pow10(n) == IF n = 0 THEN 1 ELSE 10 * Pow10(n - 1)

DotCount(s) == Cardinality({i \in 1..Len(s) : Ch(s, i) = "."})

\* float() accepts a text of digits and dots when it has at most one dot and
\* at least one digit ("1", "1.", ".5", "1.5"); "." and "1.2.3" raise ValueError
FloatOk(s) == DotCount(s) <= 1 /\ Len(s) > DotCount(s)

\* float() of an accepted text, as the exact fraction num / den
FloatOf(s) ==
    IF DotCount(s) = 0 THEN [num |-> StrToNat(s), den |-> 1]
    ELSE LET d == CHOOSE i \in 1..Len(s) : Ch(s, i) = "."
             frac == SubSeq(s, d + 1, Len(s))
         IN  [num |-> StrToNat(SubSeq(s, 1, d - 1) \o frac), den |-> Pow10(Len(frac))]

---------------------------------------------------------------------------
(* Values: a number is the exact fraction num / den, a text is a string *)

NumV(n, d) == [kind |-> "num", num |-> n, den |-> d, str |-> ""]
StrV(s) == [kind |-> "str", num |-> 0, den |-> 1, str |-> s]
Int2V(n) == NumV(n, 1)

\* the order of the characters (their code points)
OrdSeq == " ." \o DigitSeq \o UpperSeq \o "_" \o LowerSeq
OrdOf == [c \in CharsOf(OrdSeq) |-> IndexIn(OrdSeq, c)]
Ord(c) == OrdOf[c]

RECURSIVE StrLess(_, _)
\* a < b on Python strings
StrLess(a, b) ==
    IF b = "" THEN FALSE
    ELSE IF a = "" THEN TRUE
    ELSE IF Head(a) = Head(b) THEN StrLess(Tail(a), Tail(b))
    ELSE Ord(Head(a)) < Ord(Head(b))

\* a < b and a = b on two values of one kind
ValLess(a, b) ==
    IF a.kind = "num" THEN a.num * b.den < b.num * a.den ELSE StrLess(a.str, b.str)
ValEq(a, b) ==
    /\ a.kind = b.kind
    /\ IF a.kind = "num" THEN a.num * b.den = b.num * a.den ELSE a.str = b.str

---------------------------------------------------------------------------
(* Tables *)

\* a table: cols are the column names in order, dtypes maps each to "num"
\* (a numeric dtype) or "obj" (object: strings), rows are the rows in order;
\* a row is its index label idx and its cells, one value per column
MkTable(cols, dtypes, rows) == [cols |-> cols, dtypes |-> dtypes, rows |-> rows]
MkRow(idx, cells) == [idx |-> idx, cells |-> cells]

NoTable == MkTable(<<>>, <<>>, <<>>)

Columns(t) == {t.cols[i] : i \in 1..Len(t.cols)}

\* col in dataframe.columns
HasColumn(t, col) == col \in Columns(t)

\* the values of one column, in row order
ColumnValues(t, col) == [i \in 1..Len(t.rows) |-> t.rows[i].cells[col]]

RECURSIVE KeepRows(_, _)
\* dataframe[mask]: the rows at the positions of keep, in their order
KeepRows(rows, keep) ==
    IF rows = <<>> THEN <<>>
    ELSE LET n == Len(rows)
             rest == KeepRows(SubSeq(rows, 1, n - 1), keep)
         IN  IF n \in keep THEN Append(rest, rows[n]) ELSE rest

WithRows(t, rows) == MkTable(t.cols, t.dtypes, rows)

\* DataFrame.head(n)
HeadRows(t, n) == WithRows(t, SubSeq(t.rows, 1, IF n < Len(t.rows) THEN n ELSE Len(t.rows)))

OrderingOps == {">", ">=", "<", "<="}

\* one comparison of a cell with a value, as the pandas operators decide it:
\* values of different kinds are never equal
Compare(cmp, cell, value) ==
    IF cell.kind # value.kind THEN cmp = "!="
    ELSE CASE cmp = ">"  -> ValLess(value, cell)
           [] cmp = ">=" -> ~ValLess(cell, value)
           [] cmp = "<"  -> ValLess(cell, value)
           [] cmp = "<=" -> ~ValLess(value, cell)
           [] cmp = "==" -> ValEq(cell, value)
           [] cmp = "!=" -> ~ValEq(cell, value)

\* dataframe[col] <cmp> value raises TypeError: an ordering of a numeric column
\* with a text, or of a text cell with a number
CompareRaises(t, col, cmp, value) ==
    /\ cmp \in OrderingOps
    /\ \/ t.dtypes[col] = "num" /\ value.kind # "num"
       \/ t.dtypes[col] = "obj" /\ \E i \in 1..Len(t.rows) : t.rows[i].cells[col].kind # value.kind

\* the boolean mask dataframe[col] <cmp> value, as the set of row positions
CompareMask(t, col, cmp, value) ==
    {i \in 1..Len(t.rows) : Compare(cmp, t.rows[i].cells[col], value)}

RowOrders(n) == {p \in [1..n -> 1..n] : \A i, j \in 1..n : p[i] = p[j] => i = j}

\* sort_values(by=col, ascending=ascending): every order of the rows that is
\* sorted on col; the default sort kind is not stable, rows with equal keys
\* come in an order the build decides
SortValues(t, col, ascending) ==
    LET n == Len(t.rows)
        key(i) == t.rows[i].cells[col]
        sorted(p) == \A i \in 1..(n - 1) :
                        IF ascending THEN ~ValLess(key(p[i + 1]), key(p[i]))
                                     ELSE ~ValLess(key(p[i]), key(p[i + 1]))
    IN  {WithRows(t, [i \in 1..n |-> t.rows[p[i]]]) : p \in {q \in RowOrders(n) : sorted(q)}}

RECURSIVE SortedKeys(_)
\* the values of a set in ascending order
SortedKeys(S) ==
    IF S = {} THEN <<>>
    ELSE LET m == CHOOSE x \in S : \A y \in S \ {x} : ValLess(x, y)
         IN  <<m>> \o SortedKeys(S \ {m})

CountColumn == "count"

\* groupby(col).size().reset_index(name='count'): one row per value of col,
\* in ascending order of the value, with the number of rows holding it
GroupSize(t, col) ==
    LET vals == ColumnValues(t, col)
        keys == SortedKeys({vals[i] : i \in 1..Len(vals)})
        size(k) == Cardinality({i \in 1..Len(vals) : vals[i] = k})
    IN  MkTable(<<col, CountColumn>>,
                (col :> t.dtypes[col]) @@ (CountColumn :> "num"),
                [j \in 1..Len(keys) |->
                    MkRow(j - 1, (col :> keys[j]) @@ (CountColumn :> Int2V(size(keys[j]))))])

---------------------------------------------------------------------------
(* What a call gives back *)

\* a returned table; is_input: the object returned is the caller's own table
Returned(t) == [kind |-> "table", table |-> t, error |-> "", is_input |-> FALSE]
ReturnedInput(t) == [kind |-> "table", table |-> t, error |-> "", is_input |-> TRUE]
\* a raised exception
Raised(e) == [kind |-> "error", table |-> NoTable, error |-> e, is_input |-> FALSE]
NoResult == [kind |-> "none", table |-> NoTable, error |-> "", is_input |-> FALSE]
\* parse_natural_language_query returned its operations dict
ReturnedOperations == [kind |-> "operations", table |-> NoTable, error |-> "", is_input |-> FALSE]

\* float() of a text that is no number
FloatError == "ValueError: could not convert string to float"
\* raise ValueError(f"Column '{col}' not found ...")
ColumnNotFound == "ValueError: Column not found"
\* a comparison of values that have no order
TypeError == "TypeError: not supported between instances"

---------------------------------------------------------------------------
(* Regular expressions of the query functions *)

NoWord == [found |-> FALSE, word |-> ""]

\* lit(\w+) matches at position i
LitWordAt(s, i, lit) ==
    /\ StartsAt(s, i, lit)
    /\ SpanEnd(s, i + Len(lit), WordChars) >= i + Len(lit)

\* re.search of  lits[1](\w+)|lits[2](\w+)|... : the leftmost position where
\* an alternative matches and there the first alternative that does; the
\* captured word
SearchLitWord(s, lits) ==
    LET hits == {i \in 1..Len(s) : \E k \in 1..Len(lits) : LitWordAt(s, i, lits[k])}
    IN  IF hits = {} THEN NoWord
        ELSE LET i == SetMin(hits)
                 k == SetMin({j \in 1..Len(lits) : LitWordAt(s, i, lits[j])})
                 a == i + Len(lits[k])
             IN  [found |-> TRUE, word |-> SubSeq(s, a, SpanEnd(s, a, WordChars))]

NoNumber == [found |-> FALSE, digits |-> ""]

\* kw\s+(\d+) matches at position i
KwNumAt(s, i, kw) ==
    /\ StartsAt(s, i, kw)
    /\ LET a == i + Len(kw)
           e == SpanEnd(s, a, SpaceChars)
       IN  e >= a /\ SpanEnd(s, e + 1, DigitChars) >= e + 1

\* re.search of  kws[1]\s+(\d+)|kws[2]\s+(\d+)|... : the captured digits
SearchKwNum(s, kws) ==
    LET hits == {i \in 1..Len(s) : \E k \in 1..Len(kws) : KwNumAt(s, i, kws[k])}
    IN  IF hits = {} THEN NoNumber
        ELSE LET i == SetMin(hits)
                 k == SetMin({j \in 1..Len(kws) : KwNumAt(s, i, kws[j])})
                 d == SpanEnd(s, i + Len(kws[k]), SpaceChars) + 1
             IN  [found |-> TRUE, digits |-> SubSeq(s, d, SpanEnd(s, d, DigitChars))]

NoCondition == [found |-> FALSE, column |-> "", operator |-> "", text |-> ""]

\* where<gap>(\w+)\s*(ops[1]|ops[2]|...)\s*([\d.]+) at position i, where <gap>
\* is \s+ (oneSpace = FALSE) or a single blank (oneSpace = TRUE): the column,
\* the first operator of the alternation after which the rest matches, and
\* the text of the number
WhereSymbolAt(s, i, oneSpace, ops) ==
    LET a == i + Len("where")
        w == IF oneSpace THEN a + 1 ELSE SpanEnd(s, a, SpaceChars) + 1
        e == SpanEnd(s, w, WordChars)
        o == SpanEnd(s, e + 1, SpaceChars) + 1
        v(k) == SpanEnd(s, o + Len(ops[k]), SpaceChars) + 1
        good == {k \in 1..Len(ops) :
                    StartsAt(s, o, ops[k]) /\ SpanEnd(s, v(k), NumChars) >= v(k)}
    IN  IF /\ StartsAt(s, i, "where")
           /\ IF oneSpace THEN StartsAt(s, a, " ") ELSE w > a
           /\ e >= w
           /\ good # {}
        THEN LET k == SetMin(good)
             IN  [found |-> TRUE, column |-> SubSeq(s, w, e), operator |-> ops[k],
                  text |-> SubSeq(s, v(k), SpanEnd(s, v(k), NumChars))]
        ELSE NoCondition

\* re.search of the pattern of WhereSymbolAt: its leftmost match
SearchWhereSymbol(s, oneSpace, ops) ==
    LET hits == {i \in 1..Len(s) : WhereSymbolAt(s, i, oneSpace, ops).found}
    IN  IF hits = {} THEN NoCondition ELSE WhereSymbolAt(s, SetMin(hits), oneSpace, ops)

---------------------------------------------------------------------------
(* data_tools.execute_complex_query *)

\* order by (\w+)|sort by (\w+)|sorted by (\w+)
OrderAlternatives == <<"order by ", "sort by ", "sorted by ">>
\* limit\s+(\d+)|first\s+(\d+)|top\s+(\d+)
LimitAlternatives == <<"limit", "first", "top">>
\* (>|<|>=|<=|==)
WhereOperators == <<">", "<", ">=", "<=", "==">>

\* the re.search calls and the substring tests of execute_complex_query on
\* the lower-cased command
ExecuteMatches(q) ==
    LET query_lower == Lower(q)
    IN  [order_match |-> SearchLitWord(query_lower, OrderAlternatives),
         desc        |-> Contains(query_lower, "desc"),
         limit_match |-> SearchKwNum(query_lower, LimitAlternatives),
         has_where   |-> Contains(query_lower, "where"),
         where_match |-> SearchWhereSymbol(query_lower, FALSE, WhereOperators),
         group_match |-> SearchLitWord(query_lower, <<"group by ">>)]

\* a sort that never reads the direction: always ascending
OrderStepAscending(t, m) ==
    IF m.order_match.found /\ HasColumn(t, m.order_match.word)
    THEN SortValues(t, m.order_match.word, TRUE)
    ELSE {t}

\* the ORDER BY step: the tables the sort can give
OrderStep(t, m) ==
    IF m.order_match.found /\ HasColumn(t, m.order_match.word)
    THEN SortValues(t, m.order_match.word, ~m.desc)
    ELSE {t}

\* the LIMIT step
LimitStep(t, m) ==
    IF m.limit_match.found THEN HeadRows(t, StrToNat(m.limit_match.digits)) ELSE t

\* the WHERE step: float() of the captured text comes before the column test
WhereStep(t, m) ==
    IF ~m.has_where \/ ~m.where_match.found THEN Returned(t)
    ELSE IF ~FloatOk(m.where_match.text) THEN Raised(FloatError)
    ELSE LET val == FloatOf(m.where_match.text)
             value == NumV(val.num, val.den)
             col == m.where_match.column
             cmp == m.where_match.operator
         IN  IF ~HasColumn(t, col) THEN Returned(t)
             ELSE IF CompareRaises(t, col, cmp, value) THEN Raised(TypeError)
             ELSE Returned(WithRows(t, KeepRows(t.rows, CompareMask(t, col, cmp, value))))

\* the GROUP BY step
GroupStep(t, m) ==
    IF m.group_match.found /\ HasColumn(t, m.group_match.word)
    THEN GroupSize(t, m.group_match.word)
    ELSE t

\* the steps after the sort in the order a reader of SQL expects: the WHERE
\* filter on the whole sorted table, the LIMIT after it
AfterOrderFilterFirst(sorted, m) ==
    LET filtered == WhereStep(sorted, m)
    IN  IF filtered.kind = "error" THEN filtered
        ELSE Returned(GroupStep(LimitStep(filtered.table, m), m))

\* the steps after the sort, on one sorted table
AfterOrder(sorted, m) ==
    LET filtered == WhereStep(LimitStep(sorted, m), m)
    IN  IF filtered.kind = "error" THEN filtered
        ELSE Returned(GroupStep(filtered.table, m))

\* an execute_complex_query whose GROUP BY counts the rows of the table it was
\* given, whatever the other clauses left
ExecuteGroupingInput(dataframe, m) ==
    {IF AfterOrder(sorted, m).kind = "error" \/ ~m.group_match.found
     THEN AfterOrder(sorted, m)
     ELSE Returned(GroupStep(dataframe, m)) : sorted \in OrderStep(dataframe, m)}

\* the body of execute_complex_query on the matches of its command: every
\* outcome the call can have
ExecuteComplexQueryOn(dataframe, m) ==
    {AfterOrder(sorted, m) : sorted \in OrderStep(dataframe, m)}

\* execute_complex_query(dataframe, query)
ExecuteComplexQuery(dataframe, q) == ExecuteComplexQueryOn(dataframe, ExecuteMatches(q))

---------------------------------------------------------------------------
(* advanced_data_tools.parse_natural_language_query *)

\* a condition dict {'column': ..., 'operator': ..., 'value': ...}; a value
\* that is a list (between, in) has kind "list" and its elements in items
MkCond(column, operator, value, items) ==
    [column |-> column, operator |-> operator, value |-> value, items |-> items]
ListV == [kind |-> "list", num |-> 0, den |-> 1, str |-> ""]

RECURSIVE SkipWords(_, _, _)
\* (\s+word)* for the words in turn, from position p: the position after the
\* last word, 0 when it does not match
SkipWords(s, p, words) ==
    IF words = <<>> THEN p
    ELSE LET q == SpanEnd(s, p, SpaceChars) + 1
         IN  IF q > p /\ StartsAt(s, q, words[1])
             THEN SkipWords(s, q + Len(words[1]), Tail(words))
             ELSE 0

\* where (\w+)\s+words[1]\s+words[2]...\s+([cls]+) at position i: the column
\* and the captured text.  When cls holds the white space and nothing of cls
\* follows the blanks, the last \s+ gives back its last blank to the group
WhereWordsAt(s, i, words, cls) ==
    LET a == i + Len("where ")
        e == SpanEnd(s, a, WordChars)
        p == IF e >= a THEN SkipWords(s, e + 1, words) ELSE 0
        sp == SpanEnd(s, p, SpaceChars)
        g == sp + 1
        r == SpanEnd(s, g, cls)
    IN  IF ~StartsAt(s, i, "where ") \/ e < a \/ p = 0 \/ sp < p THEN NoCondition
        ELSE IF r >= g
             THEN [found |-> TRUE, column |-> SubSeq(s, a, e), operator |-> "",
                   text |-> SubSeq(s, g, r)]
        ELSE IF sp > p /\ Ch(s, sp) \in cls
             THEN [found |-> TRUE, column |-> SubSeq(s, a, e), operator |-> "",
                   text |-> Ch(s, sp)]
        ELSE NoCondition

\* re.search of the pattern of WhereWordsAt: its leftmost match
SearchWhereWords(s, words, cls) ==
    LET hits == {i \in 1..Len(s) : WhereWordsAt(s, i, words, cls).found}
    IN  IF hits = {} THEN NoCondition ELSE WhereWordsAt(s, SetMin(hits), words, cls)

\* order_patterns, group_patterns: each is one re.search
OrderPatterns == <<"order by ", "sort by ", "sorted by ", "sort ">>
GroupPatterns == <<"group by ", "grouped by ", "group ">>
\* (>|>=|<|<=|==|!=)
ParseWhereOperators == <<">", ">=", "<", "<=", "==", "!=">>

\* the re.search calls and the substring tests of parse_natural_language_query
\* on the lower-cased command
ParseMatches(q) ==
    LET query_lower == Lower(q)
    IN  [order_matches |-> [k \in 1..Len(OrderPatterns) |->
                               SearchLitWord(query_lower, <<OrderPatterns[k]>>)],
         desc          |-> Contains(query_lower, "desc") \/ Contains(query_lower, "descending"),
         group_matches |-> [k \in 1..Len(GroupPatterns) |->
                               SearchLitWord(query_lower, <<GroupPatterns[k]>>)],
         where_symbol  |-> SearchWhereSymbol(query_lower, TRUE, ParseWhereOperators),
         where_is      |-> SearchWhereWords(query_lower, <<"is">>, WordSpaceChars),
         where_greater |-> SearchWhereWords(query_lower, <<"greater", "than">>, NumChars),
         where_less    |-> SearchWhereWords(query_lower, <<"less", "than">>, NumChars),
         limit_match   |-> SearchKwNum(query_lower, LimitAlternatives)]

\* the loop over order_patterns (and over group_patterns): the word of the
\* first pattern, in order, whose match is a column; "" (None) when there is none
FirstKnownColumn(dataframe, matches) ==
    LET good == {k \in 1..Len(matches) :
                    matches[k].found /\ HasColumn(dataframe, matches[k].word)}
    IN  IF good = {} THEN "" ELSE matches[SetMin(good)].word

\* a where pattern matched a text float() cannot convert: the extractor raises
ExtractorRaises(m) ==
    \/ m.where_symbol.found  /\ ~FloatOk(m.where_symbol.text)
    \/ m.where_greater.found /\ ~FloatOk(m.where_greater.text)
    \/ m.where_less.found    /\ ~FloatOk(m.where_less.text)

FloatV(text) == LET f == FloatOf(text) IN NumV(f.num, f.den)

\* the conditions the extractors of the four where_patterns build, in the
\* order of the patterns
ExtractedConditions(m) ==
    <<[found |-> m.where_symbol.found,
       cond  |-> MkCond(m.where_symbol.column, m.where_symbol.operator,
                        FloatV(m.where_symbol.text), <<>>)],
      [found |-> m.where_is.found,
       cond  |-> MkCond(m.where_is.column, "==", StrV(Strip(m.where_is.text)), <<>>)],
      [found |-> m.where_greater.found,
       cond  |-> MkCond(m.where_greater.column, ">", FloatV(m.where_greater.text), <<>>)],
      [found |-> m.where_less.found,
       cond  |-> MkCond(m.where_less.column, "<", FloatV(m.where_less.text), <<>>)]>>

RECURSIVE AppendMatched(_, _)
\* a loop over where_patterns without the column test: every pattern that
\* matched appends its condition
AppendMatched(dataframe, extracted) ==
    IF extracted = <<>> THEN <<>>
    ELSE LET n == Len(extracted)
             before == AppendMatched(dataframe, SubSeq(extracted, 1, n - 1))
         IN  IF extracted[n].found THEN Append(before, extracted[n].cond) ELSE before

RECURSIVE AppendKnown(_, _)
\* the loop over where_patterns: every pattern that matched appends its
\* condition when the column of the condition is a column of the table
AppendKnown(dataframe, extracted) ==
    IF extracted = <<>> THEN <<>>
    ELSE LET n == Len(extracted)
             before == AppendKnown(dataframe, SubSeq(extracted, 1, n - 1))
         IN  IF extracted[n].found /\ HasColumn(dataframe, extracted[n].cond.column)
             THEN Append(before, extracted[n].cond)
             ELSE before

WhereConditions(dataframe, m) == AppendKnown(dataframe, ExtractedConditions(m))

\* an ORDER BY part whose direction follows the word "desc" alone
ParseOrderDescAnywhere(dataframe, m) ==
    [order_by |-> FirstKnownColumn(dataframe, m.order_matches),
     order_direction |-> IF m.desc THEN "desc" ELSE "asc"]

\* the ORDER BY part of the operations: the direction is set only together
\* with order_by
ParseOrder(dataframe, m) ==
    LET col == FirstKnownColumn(dataframe, m.order_matches)
    IN  [order_by |-> col,
         order_direction |-> IF col # "" /\ m.desc THEN "desc" ELSE "asc"]

\* the operations dict; None is "" for a column and <<>> for the limit
ParseOperations(dataframe, m) ==
    [where_conditions |-> WhereConditions(dataframe, m),
     group_by         |-> FirstKnownColumn(dataframe, m.group_matches),
     order_by         |-> ParseOrder(dataframe, m).order_by,
     order_direction  |-> ParseOrder(dataframe, m).order_direction,
     limit            |-> IF m.limit_match.found
                          THEN <<StrToNat(m.limit_match.digits)>> ELSE <<>>]

NoOperations ==
    [where_conditions |-> <<>>, group_by |-> "", order_by |-> "",
     order_direction |-> "asc", limit |-> <<>>]

\* the body of parse_natural_language_query on the matches of its command:
\* raised is TRUE when an extractor raised, else operations is the dict
ParseOn(dataframe, m) ==
    IF ExtractorRaises(m)
    THEN [raised |-> TRUE, operations |-> NoOperations]
    ELSE [raised |-> FALSE, operations |-> ParseOperations(dataframe, m)]

\* parse_natural_language_query(query, dataframe)
ParseNaturalLanguageQuery(q, dataframe) == ParseOn(dataframe, ParseMatches(q))

---------------------------------------------------------------------------
(* The condition masks of execute_sql_like_query and multi_condition_filter *)

\* str() of a cell: the text itself, the digits of a whole number
StrOfValue(v) == IF v.kind = "str" THEN v.str ELSE NatToStr(v.num \div v.den)

\* dataframe[col].astype(str).str.contains(str(value), case=False, na=False),
\* for a value without regular-expression characters
ContainsMask(t, col, value) ==
    {i \in 1..Len(t.rows) :
        Contains(Lower(StrOfValue(t.rows[i].cells[col])), Lower(StrOfValue(value)))}

ComparisonOps == {">", ">=", "<", "<=", "==", "!="}

\* the mask multi_condition_filter appends for one condition on a column of
\* the table: has is FALSE when no branch of the if/elif chain takes the operator
FilterMask(t, c) ==
    IF c.operator \in ComparisonOps
    THEN [has |-> TRUE, mask |-> CompareMask(t, c.column, c.operator, c.value)]
    ELSE IF c.operator = "contains"
    THEN [has |-> TRUE, mask |-> ContainsMask(t, c.column, c.value)]
    ELSE [has |-> FALSE, mask |-> {}]

\* the comparison of one condition raises
ConditionRaises(t, c) ==
    /\ c.operator \in ComparisonOps
    /\ CompareRaises(t, c.column, c.operator, c.value)

RECURSIVE MaskListUnknownNoRows(_, _)
\* a list of masks where a condition on an unknown column selects no row
MaskListUnknownNoRows(t, conditions) ==
    IF conditions = <<>> THEN <<>>
    ELSE LET n == Len(conditions)
             before == MaskListUnknownNoRows(t, SubSeq(conditions, 1, n - 1))
             c == conditions[n]
         IN  IF ~HasColumn(t, c.column) THEN Append(before, {})
             ELSE IF FilterMask(t, c).has THEN Append(before, FilterMask(t, c).mask)
             ELSE before

RECURSIVE MaskList(_, _)
\* the list masks of multi_condition_filter: a condition on an unknown column
\* and a condition with another operator leave no mask
MaskList(t, conditions) ==
    IF conditions = <<>> THEN <<>>
    ELSE LET n == Len(conditions)
             before == MaskList(t, SubSeq(conditions, 1, n - 1))
             c == conditions[n]
         IN  IF HasColumn(t, c.column) /\ FilterMask(t, c).has
             THEN Append(before, FilterMask(t, c).mask)
             ELSE before

RECURSIVE AndMasks(_)
\* combined_mask & mask over the list
AndMasks(masks) ==
    IF Len(masks) = 1 THEN masks[1]
    ELSE AndMasks(SubSeq(masks, 1, Len(masks) - 1)) \cap masks[Len(masks)]

RECURSIVE OrMasks(_)
\* combined_mask | mask over the list
OrMasks(masks) ==
    IF Len(masks) = 1 THEN masks[1]
    ELSE OrMasks(SubSeq(masks, 1, Len(masks) - 1)) \cup masks[Len(masks)]

\* the combination of the masks: intersection for AND, union for anything else
CombineMasks(masks, logic_arg) ==
    IF Upper(logic_arg) = "AND" THEN AndMasks(masks) ELSE OrMasks(masks)

\* multi_condition_filter(dataframe, conditions, logic), the same code in
\* data_tools and in advanced_data_tools
MultiConditionFilter(dataframe, conditions, logic_arg) ==
    IF conditions = <<>> THEN ReturnedInput(dataframe)
    ELSE IF \E i \in 1..Len(conditions) :
                HasColumn(dataframe, conditions[i].column)
                /\ ConditionRaises(dataframe, conditions[i])
         THEN Raised(TypeError)
    ELSE LET masks == MaskList(dataframe, conditions)
         IN  IF masks = <<>> THEN ReturnedInput(dataframe)
             ELSE Returned(WithRows(dataframe,
                            KeepRows(dataframe.rows, CombineMasks(masks, logic_arg))))

---------------------------------------------------------------------------
(* data_tools.filter_dataframe *)

\* raise ValueError(f"Error filtering dataframe: {e}")
FilterError == "ValueError: Error filtering dataframe"

\* dataframe.empty: an axis of length 0
IsEmpty(t) == Len(t.rows) = 0 \/ Len(t.cols) = 0

GreaterWords == {"greater", ">", "gt", "above"}
LessWords == {"less", "<", "lt", "below"}
EqualWords == {"equal", "==", "eq", "equals"}
ContainsWords == {"contains", "in", "includes"}
BetweenWords == {"between", "range"}

\* the try block of filter_dataframe for a column of the table: the branch of
\* the lower-cased condition; every exception leaves as a ValueError
FilterBranch(t, column, condition, value, items) ==
    LET word == Lower(condition)
        keep(mask) == Returned(WithRows(t, KeepRows(t.rows, mask)))
        compare(cmp) == IF CompareRaises(t, column, cmp, value) THEN Raised(FilterError)
                        ELSE keep(CompareMask(t, column, cmp, value))
    IN  IF word \in GreaterWords THEN compare(">")
        ELSE IF word \in LessWords THEN compare("<")
        ELSE IF word \in EqualWords THEN compare("==")
        ELSE IF word \in ContainsWords THEN keep(ContainsMask(t, column, value))
        ELSE IF word \in BetweenWords
        THEN IF value.kind = "list" /\ Len(items) = 2
             THEN IF CompareRaises(t, column, ">=", items[1])
                     \/ CompareRaises(t, column, "<=", items[2])
                  THEN Raised(FilterError)
                  ELSE keep(CompareMask(t, column, ">=", items[1])
                                \cap CompareMask(t, column, "<=", items[2]))
             ELSE Raised(FilterError)
        ELSE Raised(FilterError)

\* filter_dataframe(column, condition, value, dataframe): the test for an
\* empty table comes before the test for the column
FilterDataframe(column, condition, value, items, dataframe) ==
    IF IsEmpty(dataframe) THEN ReturnedInput(dataframe)
    ELSE IF ~HasColumn(dataframe, column) THEN Raised(ColumnNotFound)
    ELSE FilterBranch(dataframe, column, condition, value, items)

---------------------------------------------------------------------------
(* data_tools.group_by_aggregate *)

\* a missing value (NaN)
NullV == [kind |-> "null", num |-> 0, den |-> 1, str |-> ""]
\* the square root of n / d
SqrtV(n, d) == [kind |-> "sqrt", num |-> n, den |-> d, str |-> ""]

\* raise ValueError(f"Error in group by operation: {e}"), e the ValueError of
\* the single-column path for a function name it does not know
UnknownFunctionError == "ValueError: Error in group by operation: Unknown aggregation function"
\* the same, e the AttributeError of .agg() for a name pandas does not know
InvalidFunctionError == "ValueError: Error in group by operation: not a valid function"

\* dataframe.select_dtypes(include=[np.number]).columns
NumericColumns(t) == SelectSeq(t.cols, LAMBDA c : t.dtypes[c] = "num")

RECURSIVE NumsOf(_, _, _, _)
\* the whole numbers that the rows of a group hold in a column, in row order,
\* the missing values left out; the group is the rows with key k in column g
NumsOf(rows, g, k, col) ==
    IF rows = <<>> THEN <<>>
    ELSE LET n == Len(rows)
             before == NumsOf(SubSeq(rows, 1, n - 1), g, k, col)
             cell == rows[n].cells[col]
         IN  IF rows[n].cells[g] = k /\ cell.kind = "num"
             THEN Append(before, cell.num \div cell.den)
             ELSE before

RECURSIVE SumSeq(_)
SumSeq(xs) == IF xs = <<>> THEN 0 ELSE Head(xs) + SumSeq(Tail(xs))

RECURSIVE SumSquares(_)
SumSquares(xs) == IF xs = <<>> THEN 0 ELSE Head(xs) * Head(xs) + SumSquares(Tail(xs))

SetMax(S) == CHOOSE x \in S : \A y \in S : y <= x

\* the k-th smallest of the numbers
KthSmallest(xs, k) ==
    CHOOSE x \in {xs[i] : i \in 1..Len(xs)} :
        /\ Cardinality({i \in 1..Len(xs) : xs[i] < x}) < k
        /\ Cardinality({i \in 1..Len(xs) : xs[i] <= x}) >= k

\* the functions of a pandas group-by that the calls of the model name
PandasFunctions == {"sum", "mean", "count", "max", "min", "std", "median"}

\* one aggregate of the numbers of a group, the missing values skipped
Aggregate(fn, xs) ==
    LET n == Len(xs)
        S == {xs[i] : i \in 1..n}
    IN  CASE fn = "sum"    -> Int2V(SumSeq(xs))
          [] fn = "count"  -> Int2V(n)
          [] fn = "mean"   -> IF n = 0 THEN NullV ELSE NumV(SumSeq(xs), n)
          [] fn = "max"    -> IF n = 0 THEN NullV ELSE Int2V(SetMax(S))
          [] fn = "min"    -> IF n = 0 THEN NullV ELSE Int2V(SetMin(S))
          [] fn = "std"    -> IF n < 2 THEN NullV
                              ELSE SqrtV(n * SumSquares(xs) - SumSeq(xs) * SumSeq(xs),
                                         n * (n - 1))
          [] fn = "median" -> IF n = 0 THEN NullV
                              ELSE NumV(KthSmallest(xs, (n + 1) \div 2)
                                          + KthSmallest(xs, (n + 2) \div 2), 2)

\* grouped[cols].<fn>().reset_index(): the group column, then one column per
\* aggregated column; one row per value of the group column, in ascending order
GroupedAggregate(t, g, cols, fn) ==
    LET vals == ColumnValues(t, g)
        keys == SortedKeys({vals[i] : i \in 1..Len(vals)})
        out == <<g>> \o cols
        cell(k, c) == IF c = g THEN k ELSE Aggregate(fn, NumsOf(t.rows, g, k, c))
    IN  MkTable(out,
                [c \in {out[i] : i \in 1..Len(out)} |-> IF c = g THEN t.dtypes[g] ELSE "num"],
                [j \in 1..Len(keys) |->
                    MkRow(j - 1, [c \in {out[i] : i \in 1..Len(out)} |-> cell(keys[j], c)])])

\* the branch "if agg_column and agg_column in dataframe.columns"
SingleColumnPath(t, g, agg_function, agg_column) ==
    LET fn == Lower(agg_function)
        name == CASE fn \in {"mean", "average"} -> "mean"
                  [] fn \in {"std", "stddev"} -> "std"
                  [] fn \in {"sum", "count", "max", "min"} -> fn
                  [] OTHER -> ""
    IN  IF name = "" THEN Raised(UnknownFunctionError)
        ELSE Returned(GroupedAggregate(t, g, <<agg_column>>, name))

\* the else branch: every numeric column; a name other than sum, mean,
\* average and count goes to .agg() as it was written
AllNumericPath(t, g, agg_function) ==
    LET fn == Lower(agg_function)
        numeric_cols == NumericColumns(t)
    IN  IF fn = "sum" \/ fn = "count" THEN Returned(GroupedAggregate(t, g, numeric_cols, fn))
        ELSE IF fn \in {"mean", "average"}
        THEN Returned(GroupedAggregate(t, g, numeric_cols, "mean"))
        ELSE IF agg_function \in PandasFunctions
        THEN Returned(GroupedAggregate(t, g, numeric_cols, agg_function))
        ELSE Raised(InvalidFunctionError)

\* group_by_aggregate(dataframe, group_by, agg_function, agg_column);
\* agg_column "" is None
GroupByAggregate(dataframe, group_by, agg_function, agg_column) ==
    IF ~HasColumn(dataframe, group_by) THEN Raised(ColumnNotFound)
    ELSE IF agg_column # "" /\ HasColumn(dataframe, agg_column)
    THEN SingleColumnPath(dataframe, group_by, agg_function, agg_column)
    ELSE AllNumericPath(dataframe, group_by, agg_function)

---------------------------------------------------------------------------
(* data_tools.advanced_group_by and advanced_data_tools.advanced_group_by *)

\* one item of the aggregations dict: a column with one function name
\* (is_list FALSE, funcs of length 1) or with a list of function names
MkAgg(column, funcs, is_list) == [column |-> column, funcs |-> funcs, is_list |-> is_list]

\* the name of a column of a two-level column index, as str() prints the tuple
TupleName(col, func) == "('" \o col \o "', '" \o func \o "')"

RECURSIVE ListName(_)
\* str() of a list of function names
ListName(funcs) ==
    IF funcs = <<>> THEN "[]"
    ELSE IF Len(funcs) = 1 THEN "['" \o funcs[1] \o "']"
    ELSE LET front == ListName(SubSeq(funcs, 1, Len(funcs) - 1))
         IN  SubSeq(front, 1, Len(front) - 1) \o ", '" \o funcs[Len(funcs)] \o "']"

\* pandas: grouped.agg of a column that the table does not have
AggKeyError == "KeyError: Column(s) do not exist"
\* pandas: result.columns = a list of another length
LengthMismatch == "ValueError: Length mismatch"
\* the message of both versions for an unknown group column
GroupByNotFound == "ValueError: Column not found for GROUP BY"

RECURSIVE AggPairs(_)
\* the (column, function) pairs of grouped.agg(dict), in the order of the dict
AggPairs(aggs) ==
    IF aggs = <<>> THEN <<>>
    ELSE [i \in 1..Len(aggs[1].funcs) |-> <<aggs[1].column, aggs[1].funcs[i]>>]
            \o AggPairs(Tail(aggs))

\* the dict holds a list: pandas then gives every column a two-level name
AnyList(aggs) == \E i \in 1..Len(aggs) : aggs[i].is_list

\* result.columns of grouped.agg(dict)
AggColumnNames(aggs) ==
    LET pairs == AggPairs(aggs)
    IN  [i \in 1..Len(pairs) |->
            IF AnyList(aggs) THEN TupleName(pairs[i][1], pairs[i][2]) ELSE pairs[i][1]]

\* the table of grouped.agg(dict) after reset_index(), its aggregated
\* columns named by names; g is the name reset_index gives the group column
AggTable(t, g, gname, aggs, names) ==
    LET vals == ColumnValues(t, g)
        keys == SortedKeys({vals[i] : i \in 1..Len(vals)})
        pairs == AggPairs(aggs)
        out == <<gname>> \o names
        outs == {out[i] : i \in 1..Len(out)}
        at(c) == CHOOSE i \in 1..Len(names) : names[i] = c
        cell(k, c) == IF c = gname THEN k
                      ELSE Aggregate(pairs[at(c)][2], NumsOf(t.rows, g, k, pairs[at(c)][1]))
    IN  MkTable(out,
                [c \in outs |-> IF c = gname THEN t.dtypes[g] ELSE "num"],
                [j \in 1..Len(keys) |-> MkRow(j - 1, [c \in outs |-> cell(keys[j], c)])])

\* the name of the group column after reset_index(): a two-level index pads it
GroupName(g, two_level) == IF two_level THEN TupleName(g, "") ELSE g

\* data_tools.advanced_group_by(dataframe, group_by, aggregations)
AdvancedGroupBy(dataframe, group_by, aggregations) ==
    IF ~HasColumn(dataframe, group_by) THEN Raised(GroupByNotFound)
    ELSE IF aggregations = <<>> THEN Returned(GroupSize(dataframe, group_by))
    ELSE IF \E i \in 1..Len(aggregations) : ~HasColumn(dataframe, aggregations[i].column)
    THEN Raised(AggKeyError)
    ELSE Returned(AggTable(dataframe, group_by, GroupName(group_by, AnyList(aggregations)),
                           aggregations, AggColumnNames(aggregations)))

\* the names that advanced_data_tools.advanced_group_by assigns to
\* result.columns: zip(result.columns, the values of aggregations as lists)
RenamedColumns(columns, aggregations) ==
    LET n == IF Len(columns) < Len(aggregations) THEN Len(columns) ELSE Len(aggregations)
    IN  [i \in 1..n |->
            IF Len(aggregations[i].funcs) > 1
            THEN columns[i] \o "_" \o ListName(aggregations[i].funcs)
            ELSE columns[i]]

\* advanced_data_tools.advanced_group_by(dataframe, group_by, aggregations)
SqlAdvancedGroupBy(dataframe, group_by, aggregations) ==
    LET KnownColumn(a) == HasColumn(dataframe, a.column)
        agg_dict == SelectSeq(aggregations, KnownColumn)
        columns == AggColumnNames(agg_dict)
        renamed == RenamedColumns(columns, aggregations)
    IN  IF ~HasColumn(dataframe, group_by) THEN Raised(GroupByNotFound)
        ELSE IF agg_dict = <<>> THEN Returned(GroupSize(dataframe, group_by))
        ELSE IF Len(renamed) # Len(columns) THEN Raised(LengthMismatch)
        ELSE Returned(AggTable(dataframe, group_by,
                               GroupName(group_by, AnyList(agg_dict)
                                   /\ \A i \in 1..Len(renamed) : renamed[i] = columns[i]),
                               agg_dict, renamed))

---------------------------------------------------------------------------
(* parse_text_to_dataframe, format_as_table and extract_dataframe_from_result
   of data-insights.py.  A table read from a text holds its cells by
   position, as texts, because a header can name two columns alike. *)

\* the function returned None
ReturnedNone == [kind |-> "absent", table |-> NoTable, error |-> "", is_input |-> FALSE]

RECURSIVE SplitOn(_, _)
\* str.split(c) for a separator of one character
SplitOn(s, c) ==
    IF ~Contains(s, c) THEN <<s>>
    ELSE LET i == SetMin({j \in 1..Len(s) : Ch(s, j) = c})
         IN  <<SubSeq(s, 1, i - 1)>> \o SplitOn(SubSeq(s, i + 1, Len(s)), c)

RECURSIVE StripChar(_, _)
\* str.strip(c): the character c removed at both ends
StripChar(s, c) ==
    IF s = "" THEN ""
    ELSE IF Head(s) = c THEN StripChar(Tail(s), c)
    ELSE IF Ch(s, Len(s)) = c THEN StripChar(SubSeq(s, 1, Len(s) - 1), c)
    ELSE s

\* '|' in line and line.strip().startswith('|')
IsTableLine(line) == Contains(line, "|") /\ StartsAt(Strip(line), 1, "|")

\* [p.strip() for p in line.strip().strip('|').split('|')]
PartsOf(line) ==
    LET raw == SplitOn(StripChar(Strip(line), "|"), "|")
    IN  [i \in 1..Len(raw) |-> Strip(raw[i])]

\* what parse_text_to_dataframe reads off one line of the text: its tests on
\* the line, the parts of the line, and the words it looks for in the text
\* (none of them holds a line break, so the text has a word exactly when one
\* of its lines has it)
ScanLine(line) ==
    [line |-> line,
     is_table |-> IsTableLine(line),
     dashes |-> Contains(line, "---"),
     blank |-> Strip(line) = "",
     parts |-> PartsOf(line),
     correlation |-> Contains(Lower(line), "correlation") \/ Contains(Lower(line), "pearson"),
     query_results |-> Contains(Lower(line), "query results") \/ Contains(Lower(line), "rows"),
     comma |-> Contains(line, ",")]

\* text.split('\n'), every line scanned
ScanText(text) ==
    LET lines == SplitOn(text, "\n")
    IN  [i \in 1..Len(lines) |-> ScanLine(lines[i])]

RECURSIVE JoinLines(_)
\* the text with the given lines
JoinLines(lines) ==
    IF lines = <<>> THEN ""
    ELSE IF Len(lines) = 1 THEN lines[1]
    ELSE lines[1] \o "\n" \o JoinLines(Tail(lines))

\* the text of the scanned lines
TextOf(scans) == JoinLines([i \in 1..Len(scans) |-> scans[i].line])

RECURSIVE TableLines(_, _)
\* the loop over the lines that collects table_lines: a line that starts with
\* a pipe is collected; inside the table a line with --- that does not start
\* with a pipe is passed over, and any other line ends the loop
TableLines(scans, in_table) ==
    IF scans = <<>> THEN <<>>
    ELSE LET line == Head(scans)
         IN  IF line.is_table THEN <<line>> \o TableLines(Tail(scans), TRUE)
             ELSE IF in_table /\ (line.blank \/ line.dashes)
             THEN IF line.dashes THEN TableLines(Tail(scans), in_table) ELSE <<>>
             ELSE IF in_table THEN <<>>
             ELSE TableLines(Tail(scans), in_table)

\* any(p for p in parts)
AnyPart(parts) == \E i \in 1..Len(parts) : parts[i] # ""

\* cleaned_lines: the parts of every collected line that has a part
CleanedLines(table_lines) ==
    SelectSeq([i \in 1..Len(table_lines) |-> table_lines[i].parts], AnyPart)

\* no table was built
NoFrame == [found |-> FALSE, table |-> NoTable]

\* a table of texts with the given header and rows of the same width
Frame(headers, rows) ==
    MkTable(headers, [j \in 1..Len(headers) |-> "obj"],
            [i \in 1..Len(rows) |->
                MkRow(i - 1, [j \in 1..Len(headers) |-> StrV(rows[i][j])])])

\* the pipe strategy on the collected lines: header, padded rows, the columns
\* without any text dropped; pd.DataFrame raises for a row that is wider than
\* the header and the except clause passes
PipeTable(table_lines) ==
    LET cleaned_lines == CleanedLines(table_lines)
    IN  IF Len(cleaned_lines) <= 1 THEN NoFrame
        ELSE LET headers == cleaned_lines[1]
                 data_rows == SelectSeq(Tail(cleaned_lines), AnyPart)
                 max_cols == Len(headers)
                 padded_rows ==
                     [i \in 1..Len(data_rows) |->
                         data_rows[i] \o [j \in 1..(max_cols - Len(data_rows[i])) |-> ""]]
                 kept == {j \in 1..max_cols : \E i \in 1..Len(data_rows) : padded_rows[i][j] # ""}
                 keep(j) == j \in kept
                 pick(row) == [k \in 1..Cardinality(kept) |->
                                 row[SelectSeq([j \in 1..max_cols |-> j], keep)[k]]]
             IN  IF data_rows = <<>> THEN NoFrame
                 ELSE IF \E i \in 1..Len(data_rows) : Len(data_rows[i]) > max_cols THEN NoFrame
                 ELSE IF kept = {} THEN NoFrame
                 ELSE [found |-> TRUE,
                       table |-> Frame(pick(headers),
                                       [i \in 1..Len(padded_rows) |-> pick(padded_rows[i])])]

\* (\w+)\s+and\s+(\w+)[:\s]+([-]?\d+\.?\d*) with re.IGNORECASE matches at
\* position i: the end of the match and the three groups
CorrAt(s, i) ==
    LET e1 == SpanEnd(s, i, WordChars)
        e2 == SpanEnd(s, e1 + 1, SpaceChars)
        e3 == SpanEnd(s, e2 + 4, SpaceChars)
        e4 == SpanEnd(s, e3 + 1, WordChars)
        e5 == SpanEnd(s, e4 + 1, SpaceChars \cup {":"})
        d0 == IF e5 + 1 <= Len(s) /\ Ch(s, e5 + 1) = "-" THEN e5 + 2 ELSE e5 + 1
        d1 == SpanEnd(s, d0, DigitChars)
        d2 == IF d1 + 1 <= Len(s) /\ Ch(s, d1 + 1) = "." THEN d1 + 1 ELSE d1
        d3 == SpanEnd(s, d2 + 1, DigitChars)
    IN  [ok |-> /\ e1 >= i /\ e2 >= e1 + 1
                /\ e2 + 3 <= Len(s) /\ Lower(SubSeq(s, e2 + 1, e2 + 3)) = "and"
                /\ e3 >= e2 + 4 /\ e4 >= e3 + 1 /\ e5 >= e4 + 1 /\ d1 >= d0,
         end |-> d3,
         first |-> SubSeq(s, i, e1),
         second |-> SubSeq(s, e3 + 1, e4),
         negative |-> d0 = e5 + 2,
         number |-> SubSeq(s, d0, d3)]

RECURSIVE FindAllCorr(_, _)
\* re.findall of the pattern from position i on: the matches from left to
\* right, each search starting after the match before
FindAllCorr(s, i) ==
    LET hits == {j \in i..Len(s) : CorrAt(s, j).ok}
    IN  IF hits = {} THEN <<>>
        ELSE LET m == CorrAt(s, SetMin(hits))
             IN  <<m>> \o FindAllCorr(s, m.end + 1)

CorrelationColumns == <<"Feature 1", "Feature 2", "Correlation">>

\* pd.DataFrame(rows) of the correlation strategy; float(match[2])
CorrelationTable(matches) ==
    LET value(m) == LET f == FloatOf(m.number)
                    IN  NumV(IF m.negative THEN 0 - f.num ELSE f.num, f.den)
    IN  MkTable(CorrelationColumns, <<"obj", "obj", "num">>,
                [i \in 1..Len(matches) |->
                    MkRow(i - 1, <<StrV(matches[i].first), StrV(matches[i].second),
                                   value(matches[i])>>)])

\* the text reaches one of the two pd.read_csv calls: the query-results
\* strategy, or the CSV strategy (a comma and a line break in the text, a
\* comma in its first line)
ReadCsvAttempted(scans) ==
    \/ \E i \in 1..Len(scans) : scans[i].query_results
    \/ Len(scans) > 1 /\ scans[1].comma

\* parse_text_to_dataframe on the scanned lines of a text that does not reach
\* pd.read_csv
ParseTextOn(scans) ==
    IF Len(scans) = 1 /\ scans[1].line = "" THEN ReturnedNone
    ELSE LET table_lines == TableLines(scans, FALSE)
             pipe == IF table_lines = <<>> THEN NoFrame ELSE PipeTable(table_lines)
             matches == IF \E i \in 1..Len(scans) : scans[i].correlation
                        THEN FindAllCorr(TextOf(scans), 1) ELSE <<>>
         IN  IF pipe.found THEN Returned(pipe.table)
             ELSE IF matches # <<>> THEN Returned(CorrelationTable(matches))
             ELSE ReturnedNone

\* parse_text_to_dataframe(text, dataframe)
ParseTextToDataframe(text) == ParseTextOn(ScanText(text))

\* formatting_tools.format_as_table(data) for a str: one column, one row
FormatAsTable(data) == Frame(<<"Result">>, <<<<data>>>>)

\* (?:order by|sort by)\s+(\w+) matches at position i
SortWordAt(s, i, lit) ==
    /\ StartsAt(s, i, lit)
    /\ LET e == SpanEnd(s, i + Len(lit), SpaceChars)
       IN  e >= i + Len(lit) /\ SpanEnd(s, e + 1, WordChars) >= e + 1

\* re.search of (?:order by|sort by)\s+(\w+): the captured word
SearchSortWord(s) ==
    LET lits == <<"order by", "sort by">>
        hits == {i \in 1..Len(s) : \E k \in 1..2 : SortWordAt(s, i, lits[k])}
    IN  IF hits = {} THEN NoWord
        ELSE LET i == SetMin(hits)
                 k == SetMin({j \in 1..2 : SortWordAt(s, i, lits[j])})
                 a == SpanEnd(s, i + Len(lits[k]), SpaceChars) + 1
             IN  [found |-> TRUE, word |-> SubSeq(s, a, SpanEnd(s, a, WordChars))]

QueryWords == {"order by", "sort", "filter", "group by", "top", "first", "limit"}

\* the last resort of extract_dataframe_from_result: the dataframe sorted as
\* the query says; the outcomes, one per order the sort can give
QueryFallback(dataframe, q) ==
    LET query_lower == Lower(q)
        match == SearchSortWord(query_lower)
        limit_match == SearchKwNum(query_lower, <<"limit">>)
    IN  IF /\ \E w \in QueryWords : Contains(query_lower, w)
           /\ Contains(query_lower, "order by") \/ Contains(query_lower, "sort")
           /\ match.found
           /\ HasColumn(dataframe, match.word)
        THEN {Returned(IF limit_match.found
                       THEN HeadRows(t, StrToNat(limit_match.digits)) ELSE t) :
                 t \in SortValues(dataframe, match.word, ~Contains(query_lower, "desc"))}
        ELSE {ReturnedNone}

\* extract_dataframe_from_result after its call of parse_text_to_dataframe
\* has given parsed_df: the outcomes
ExtractOn(parsed_df, result_text, dataframe, q) ==
    LET formatted == FormatAsTable(result_text)
    IN  IF parsed_df.kind = "table" /\ ~IsEmpty(parsed_df.table) THEN {parsed_df}
        ELSE IF ~IsEmpty(formatted) THEN {Returned(formatted)}
        ELSE QueryFallback(dataframe, q)

\* extract_dataframe_from_result(result_text, dataframe, query), q the query
ExtractDataframeFromResult(result_text, dataframe, q) ==
    ExtractOn(ParseTextToDataframe(result_text), result_text, dataframe, q)

---------------------------------------------------------------------------
(* advanced_data_tools.execute_sql_like_query and complex_query *)

\* the mask of one WHERE condition of execute_sql_like_query; an operator of
\* no branch, and a between whose value is no pair, leave the mask as it is
SqlConditionMask(t, c) ==
    LET all == 1..Len(t.rows)
    IN  IF c.operator \in ComparisonOps
        THEN CompareMask(t, c.column, c.operator, c.value)
        ELSE IF c.operator = "in"
        THEN {i \in all : \E k \in 1..Len(c.items) : ValEq(t.rows[i].cells[c.column], c.items[k])}
        ELSE IF c.operator = "contains" THEN ContainsMask(t, c.column, c.value)
        ELSE IF c.operator = "between" /\ c.value.kind = "list" /\ Len(c.items) = 2
        THEN CompareMask(t, c.column, ">=", c.items[1])
                \cap CompareMask(t, c.column, "<=", c.items[2])
        ELSE all

\* the comparison of one WHERE condition raises
SqlConditionRaises(t, c) ==
    \/ ConditionRaises(t, c)
    \/ /\ c.operator = "between" /\ c.value.kind = "list" /\ Len(c.items) = 2
       /\ \/ CompareRaises(t, c.column, ">=", c.items[1])
          \/ CompareRaises(t, c.column, "<=", c.items[2])

RECURSIVE SqlWhere(_, _, _)
\* the loop over where_conditions from the mask built so far: the final mask,
\* or the first error
SqlWhere(t, conditions, mask) ==
    IF conditions = <<>> THEN [error |-> "", mask |-> mask]
    ELSE LET c == Head(conditions)
         IN  IF ~HasColumn(t, c.column) THEN [error |-> ColumnNotFound, mask |-> {}]
             ELSE IF SqlConditionRaises(t, c) THEN [error |-> TypeError, mask |-> {}]
             ELSE SqlWhere(t, Tail(conditions), mask \cap SqlConditionMask(t, c))

\* the WHERE clause
SqlWhereStep(t, where_conditions) ==
    IF where_conditions = <<>> THEN Returned(t)
    ELSE LET w == SqlWhere(t, where_conditions, 1..Len(t.rows))
         IN  IF w.error # "" THEN Raised(w.error)
             ELSE Returned(WithRows(t, KeepRows(t.rows, w.mask)))

\* the ORDER BY clause: the tables the sort can give
SqlOrderStep(t, order_by, order_direction) ==
    IF order_by = "" THEN {t} ELSE SortValues(t, order_by, Lower(order_direction) = "asc")

\* the LIMIT clause: "if limit:" takes neither None nor 0
SqlLimitStep(t, limit) ==
    IF limit # <<>> /\ limit[1] # 0 THEN HeadRows(t, limit[1]) ELSE t

\* execute_sql_like_query(dataframe, None, where_conditions, group_by,
\* order_by, order_direction, limit): every outcome the call can have
ExecuteSqlLikeQuery(dataframe, where_conditions, group_by, order_by, order_direction, limit) ==
    LET filtered == SqlWhereStep(dataframe, where_conditions)
    IN  IF filtered.kind = "error" THEN {filtered}
        ELSE IF group_by # "" /\ ~HasColumn(filtered.table, group_by)
             THEN {Raised(ColumnNotFound)}
        ELSE IF order_by # "" /\ ~HasColumn(filtered.table, order_by)
             THEN {Raised(ColumnNotFound)}
        ELSE {Returned(SqlLimitStep(sorted, limit)) :
                sorted \in SqlOrderStep(filtered.table, order_by, order_direction)}

\* the end of complex_query: the count per group when there is a group_by
ComplexGroupStep(out, group_by) ==
    IF out.kind = "error" \/ group_by = "" THEN out
    ELSE Returned(GroupSize(out.table, group_by))

\* the body of complex_query on the matches of its command: every outcome
ComplexQueryOn(dataframe, m) ==
    LET p == ParseOn(dataframe, m)
        operations == p.operations
    IN  IF p.raised THEN {Raised(FloatError)}
        ELSE {ComplexGroupStep(out, operations.group_by) :
                out \in ExecuteSqlLikeQuery(dataframe, operations.where_conditions,
                            operations.group_by, operations.order_by,
                            operations.order_direction, operations.limit)}

\* complex_query(dataframe, query)
ComplexQuery(dataframe, q) == ComplexQueryOn(dataframe, ParseMatches(q))

---------------------------------------------------------------------------
(* statistical_tools.distribution_analysis *)

\* a returned dict
ReturnedRecord == [kind |-> "record", table |-> NoTable, error |-> "", is_input |-> FALSE]

\* float('nan')
NaN == [nan |-> TRUE, sign |-> 0, num |-> 0, den |-> 1]
\* the real number sign * sqrt(num / den)
RootV(sign, num, den) == [nan |-> FALSE, sign |-> sign, num |-> num, den |-> den]

\* the dict of a statistics call: keys are the entries it holds
NoRecord ==
    [keys |-> {}, error |-> "", test |-> "", null_hypothesis |-> "", significant |-> "",
     normal |-> "", skewness |-> NaN, distribution_type |-> ""]

RECURSIVE DropNa(_)
\* Series.dropna() of a numeric column: the whole numbers it holds, in order
DropNa(values) ==
    IF values = <<>> THEN <<>>
    ELSE LET n == Len(values)
             before == DropNa(SubSeq(values, 1, n - 1))
         IN  IF values[n].kind = "num"
             THEN Append(before, values[n].num \div values[n].den) ELSE before

RECURSIVE SumCubes(_)
SumCubes(xs) ==
    IF xs = <<>> THEN 0 ELSE Head(xs) * Head(xs) * Head(xs) + SumCubes(Tail(xs))

Sign(x) == IF x > 0 THEN 1 ELSE IF x < 0 THEN -1 ELSE 0

\* Series.skew(): the adjusted Fisher-Pearson coefficient
\* sqrt(n (n - 1)) / (n - 2) * m3 / m2 ^ 1.5 of the n values, nan for fewer
\* than 3 values and 0 for values that are all equal; with e2 = n^2 m2 and
\* e3 = n^3 m3 its square is n (n - 1) e3^2 / ((n - 2)^2 e2^3)
Skew(xs) ==
    LET n == Len(xs)
        s == SumSeq(xs)
        e2 == n * SumSquares(xs) - s * s
        e3 == n * n * SumCubes(xs) - 3 * n * s * SumSquares(xs) + 2 * s * s * s
    IN  IF n < 3 THEN NaN
        ELSE IF e2 = 0 THEN RootV(0, 0, 1)
        ELSE RootV(Sign(e3), n * (n - 1) * e3 * e3, (n - 2) * (n - 2) * e2 * e2 * e2)

\* abs(x) < 0.5, x > 0.5 and x < -0.5 on floats: every comparison with nan
\* is False
AbsBelowHalf(x) == ~x.nan /\ 4 * x.num < x.den
AboveHalf(x) == ~x.nan /\ x.sign = 1 /\ 4 * x.num > x.den
BelowMinusHalf(x) == ~x.nan /\ x.sign = -1 /\ 4 * x.num > x.den

ApproximatelyNormal == "Approximately Normal"
RightSkewed == "Right-Skewed (Positive)"
LeftSkewed == "Left-Skewed (Negative)"

\* the if / elif / else on analysis['skewness']
DistributionType(skewness) ==
    IF AbsBelowHalf(skewness) THEN ApproximatelyNormal
    ELSE IF AboveHalf(skewness) THEN RightSkewed
    ELSE LeftSkewed

\* distribution_analysis(dataframe, column) on a numeric column or a column
\* the table does not have: what is raised or returned, and the dict
DistributionAnalysis(dataframe, column) ==
    IF ~HasColumn(dataframe, column)
    THEN [out |-> Raised(ColumnNotFound), analysis |-> NoRecord]
    ELSE LET data == DropNa(ColumnValues(dataframe, column))
             skewness == Skew(data)
         IN  [out |-> ReturnedRecord,
              analysis |-> [NoRecord EXCEPT !.keys = {"skewness", "distribution_type"},
                                            !.skewness = skewness,
                                            !.distribution_type = DistributionType(skewness)]]

---------------------------------------------------------------------------
(* data_tools.detect_outliers *)

\* Series.dtype: object for strings; a numeric column that was read is int64
\* when it holds whole numbers only and float64 when a value is missing
SeriesDtype(t, col) ==
    IF t.dtypes[col] = "obj" THEN "object"
    ELSE IF \E i \in 1..Len(t.rows) : t.rows[i].cells[col].kind = "null" THEN "float64"
    ELSE "int64"

\* dtype in [np.number]: the list holds the abstract class np.number, and
\* dtype == np.number compares dtype with np.dtype(np.number). Where numpy
\* still converts np.number (to float64, with a DeprecationWarning) the test
\* is True for float64 alone; where it refuses the conversion the test is
\* False for every dtype. The outcomes the installed numpy can give:
InNumberList(dtype) == IF dtype = "float64" THEN {TRUE, FALSE} ELSE {FALSE}

\* raise ValueError(f"Column '{column}' must be numeric ...")
MustBeNumeric == "ValueError: Column must be numeric"
\* raise ValueError(f"Error detecting outliers: {e}"), e the unknown method
UnknownMethodError == "ValueError: Error detecting outliers: Unknown method"

\* Series.quantile(q) for q = quarters / 4, times 4: linear interpolation
\* between the two values next to position (n - 1) q of the sorted values
Quantile4(xs, quarters) ==
    LET n == Len(xs)
        k == ((n - 1) * quarters) \div 4
        r == ((n - 1) * quarters) % 4
        lo == KthSmallest(xs, k + 1)
        hi == IF r = 0 THEN lo ELSE KthSmallest(xs, k + 2)
    IN  (4 - r) * lo + r * hi

\* the positions of the rows outside [Q1 - 1.5 IQR, Q3 + 1.5 IQR]: with
\* q1 = 4 Q1 and q3 = 4 Q3 the bounds times 8 are 5 q1 - 3 q3 and 5 q3 - 3 q1;
\* a missing value is on neither side, and no bound exists without a value
IqrMask(t, col) ==
    LET xs == DropNa(ColumnValues(t, col))
        q1 == Quantile4(xs, 1)
        q3 == Quantile4(xs, 3)
        x(i) == t.rows[i].cells[col]
    IN  IF xs = <<>> THEN {}
        ELSE {i \in 1..Len(t.rows) :
                /\ x(i).kind = "num"
                /\ \/ 8 * x(i).num < (5 * q1 - 3 * q3) * x(i).den
                   \/ 8 * x(i).num > (5 * q3 - 3 * q1) * x(i).den}

\* the positions of the rows with |x - mean| / std > 3, std with ddof = 1:
\* with d = n x - sum, (n - 1) d^2 > 9 (d_1^2 + ... + d_n^2); a std that is
\* nan or 0 gives no row
ZscoreMask(t, col) ==
    LET xs == DropNa(ColumnValues(t, col))
        n == Len(xs)
        s == SumSeq(xs)
        d2 == n * (n * SumSquares(xs) - s * s)
        x(i) == t.rows[i].cells[col]
        d(i) == n * (x(i).num \div x(i).den) - s
    IN  IF n < 2 \/ d2 = 0 THEN {}
        ELSE {i \in 1..Len(t.rows) :
                x(i).kind = "num" /\ (n - 1) * d(i) * d(i) > 9 * d2}

\* detect_outliers(dataframe, column, method): every outcome the call can have
DetectOutliers(dataframe, column, method) ==
    IF ~HasColumn(dataframe, column) THEN {Raised(ColumnNotFound)}
    ELSE {IF ~numeric THEN Raised(MustBeNumeric)
          ELSE IF Lower(method) = "iqr"
          THEN Returned(WithRows(dataframe, KeepRows(dataframe.rows, IqrMask(dataframe, column))))
          ELSE IF Lower(method) = "zscore"
          THEN Returned(WithRows(dataframe, KeepRows(dataframe.rows, ZscoreMask(dataframe, column))))
          ELSE Raised(UnknownMethodError) :
            numeric \in InNumberList(SeriesDtype(dataframe, column))}

---------------------------------------------------------------------------
(* statistical_tools.feature_importance *)

\* the number sign(num) * sqrt(|num| / den): a correlation, known through
\* its square
CorrV(num, den) == [kind |-> "corr", num |-> num, den |-> den, str |-> ""]

\* the error of Series.corr on a column of strings (could not convert string
\* to float, or unsupported operand types, by the pandas version)
CorrOfTextError == "ValueError or TypeError: correlation of a column of strings"

FeatureColumn == "Feature"
CorrelationColumn == "Correlation_with_Target"
AbsoluteColumn == "Absolute_Correlation"
RankColumn == "Importance_Rank"
ImportanceColumns == <<FeatureColumn, CorrelationColumn, AbsoluteColumn, RankColumn>>
ImportanceDtypes ==
    (FeatureColumn :> "obj") @@ (CorrelationColumn :> "num") @@ (AbsoluteColumn :> "num")
        @@ (RankColumn :> "num")

\* the positions of the rows that hold a number in both columns
BothPresent(t, a, b) ==
    {i \in 1..Len(t.rows) : t.rows[i].cells[a].kind = "num" /\ t.rows[i].cells[b].kind = "num"}

RECURSIVE SumOver(_, _)
\* the sum of f over a set of positions
SumOver(S, f) ==
    IF S = {} THEN 0 ELSE LET i == CHOOSE j \in S : TRUE IN f[i] + SumOver(S \ {i}, f)

\* Series.corr of two numeric columns (Pearson, on the rows where both hold a
\* number): with sxy = n sum(xy) - sum(x) sum(y) and sxx, syy alike, the
\* coefficient is sxy / sqrt(sxx syy); nan when a column is constant there or
\* fewer than two rows are left
Corr(t, a, b) ==
    LET S == BothPresent(t, a, b)
        n == Cardinality(S)
        x == [i \in S |-> t.rows[i].cells[a].num \div t.rows[i].cells[a].den]
        y == [i \in S |-> t.rows[i].cells[b].num \div t.rows[i].cells[b].den]
        sx == SumOver(S, x)
        sy == SumOver(S, y)
        sxy == n * SumOver(S, [i \in S |-> x[i] * y[i]]) - sx * sy
        sxx == n * SumOver(S, [i \in S |-> x[i] * x[i]]) - sx * sx
        syy == n * SumOver(S, [i \in S |-> y[i] * y[i]]) - sy * sy
    IN  IF n < 2 \/ sxx = 0 \/ syy = 0 THEN NullV
        ELSE CorrV(Sign(sxy) * sxy * sxy, sxx * syy)

\* abs() of a correlation
AbsCorr(c) == IF c.kind = "corr" /\ c.num < 0 THEN CorrV(-c.num, c.den) ELSE c

\* a < b on two absolute correlations that are numbers
AbsCorrLess(a, b) == a.num * b.den < b.num * a.den

\* the orders of an ascending sort
AscendingOrders(keys) ==
    LET n == Len(keys)
    IN  {p \in RowOrders(n) :
            \A i \in 1..(n - 1) :
                \/ keys[p[i + 1]].kind = "null"
                \/ /\ keys[p[i]].kind # "null"
                   /\ ~AbsCorrLess(keys[p[i + 1]], keys[p[i]])}

\* sort_values('Absolute_Correlation', ascending=False): the orders of the
\* rows with the larger value first and nan last; rows with equal values, and
\* the nan rows, in an order the sort decides
DescendingOrders(keys) ==
    LET n == Len(keys)
    IN  {p \in RowOrders(n) :
            \A i \in 1..(n - 1) :
                \/ keys[p[i + 1]].kind = "null"
                \/ /\ keys[p[i]].kind # "null"
                   /\ ~AbsCorrLess(keys[p[i]], keys[p[i + 1]])}

\* the rows of importance_df in the order p, ranked from 1 in that order;
\* each row keeps the index label it had before the sort
RankedRows(numeric_cols, corrs, p) ==
    [i \in 1..Len(numeric_cols) |->
        MkRow(p[i] - 1,
              (FeatureColumn :> StrV(numeric_cols[p[i]]))
                @@ (CorrelationColumn :> corrs[p[i]])
                @@ (AbsoluteColumn :> AbsCorr(corrs[p[i]]))
                @@ (RankColumn :> Int2V(i)))]

\* feature_importance(dataframe, target_column): every outcome the call can
\* have. A target of strings makes Series.corr raise unless the table has no
\* row (then corr returns nan before it converts the values).
FeatureImportance(dataframe, target_column) ==
    LET numeric_cols == SelectSeq(NumericColumns(dataframe), LAMBDA c : c # target_column)
        corrs == [k \in 1..Len(numeric_cols) |->
                    Corr(dataframe, numeric_cols[k], target_column)]
    IN  IF ~HasColumn(dataframe, target_column) THEN {Raised(ColumnNotFound)}
        ELSE IF Len(numeric_cols) = 0 THEN {Returned(NoTable)}
        ELSE IF dataframe.dtypes[target_column] = "obj" /\ Len(dataframe.rows) > 0
        THEN {Raised(CorrOfTextError)}
        ELSE {Returned(MkTable(ImportanceColumns, ImportanceDtypes,
                               RankedRows(numeric_cols, corrs, p))) :
                p \in DescendingOrders([k \in 1..Len(numeric_cols) |-> AbsCorr(corrs[k])])}

---------------------------------------------------------------------------
(* The tools query_data and execute_sql_query, and data_tools.query_dataframe *)

\* the text of a reply: text is the text with the rendered tables left out,
\* tables are the tables rendered in it (to_string, describe), in order
Reply(text, tables) == [text |-> text, tables |-> tables]
NoReply == Reply("", <<>>)

RECURSIVE ReprItems(_)
\* 'a', 'b', ...
ReprItems(names) ==
    IF names = <<>> THEN ""
    ELSE IF Len(names) = 1 THEN "'" \o names[1] \o "'"
    ELSE "'" \o names[1] \o "', " \o ReprItems(Tail(names))

\* str(list(dataframe.columns))
ReprList(names) == "[" \o ReprItems(names) \o "]"

\* str(e): the message of an exception, without the name of its class
StrOfError(e) ==
    LET colon == SetMin({i \in 1..Len(e) : Ch(e, i) = ":"})
    IN  SubSeq(e, colon + 2, Len(e))

\* f"Error: {str(e)}", the reply of a handler that names no column
ErrorReplyBare(e, dataframe) == Reply("Error: " \o StrOfError(e), <<>>)

\* f"Error: {str(e)}. Available columns: {list(dataframe.columns)}"
ErrorReply(e, dataframe) ==
    Reply("Error: " \o StrOfError(e) \o ". Available columns: " \o ReprList(dataframe.cols), <<>>)

\* f"Query Results ({len(result)} rows):\n{result.to_string()}"
ResultsReply(t) ==
    Reply("Query Results (" \o NatToStr(Len(t.rows)) \o " rows):\n", <<t>>)

\* DataFrame.tail(n)
TailRows(t, n) ==
    WithRows(t, SubSeq(t.rows, IF n < Len(t.rows) THEN Len(t.rows) - n + 1 ELSE 1, Len(t.rows)))

\* DataFrame.sample(k): k rows drawn without replacement, in the order drawn
SampleRows(t, k) ==
    {WithRows(t, [i \in 1..k |-> t.rows[p[i]]]) :
        p \in {f \in [1..k -> 1..Len(t.rows)] : \A i, j \in 1..k : f[i] = f[j] => i = j}}

\* n = 5, or 10, 20, 50 by the digits and words of the query
FirstCount(q) ==
    IF Contains(q, "10") THEN 10
    ELSE IF Contains(q, "20") \/ Contains(Lower(q), "twenty") THEN 20
    ELSE IF Contains(q, "50") \/ Contains(Lower(q), "fifty") THEN 50
    ELSE 5
LastCount(q) == IF Contains(q, "10") THEN 10 ELSE 5

\* query_dataframe(query, dataframe): the replies the call can give. The
\* texts of the info branch after the columns (dtypes, missing values, memory)
\* are left out, and the table that describe() summarises stands for its
\* summary.
QueryDataframe(q, dataframe) ==
    LET query_lower == Lower(q)
        has(w) == Contains(query_lower, w)
        n == Len(dataframe.rows)
    IN  IF IsEmpty(dataframe) THEN {Reply("DataFrame is empty.", <<>>)}
        ELSE IF has("head") \/ has("first")
        THEN {Reply("First " \o NatToStr(FirstCount(q)) \o " rows:\n",
                    <<HeadRows(dataframe, FirstCount(q))>>)}
        ELSE IF has("tail") \/ has("last")
        THEN {Reply("Last " \o NatToStr(LastCount(q)) \o " rows:\n",
                    <<TailRows(dataframe, LastCount(q))>>)}
        ELSE IF has("shape") \/ has("size") \/ has("dimensions")
        THEN {Reply("Dataframe shape: " \o NatToStr(n) \o " rows x "
                        \o NatToStr(Len(dataframe.cols)) \o " columns", <<>>)}
        ELSE IF has("columns") \/ has("column names")
        THEN {Reply("Column names: " \o ReprList(dataframe.cols), <<>>)}
        ELSE IF has("info")
        THEN {Reply("Dataframe Info:\nShape: (" \o NatToStr(n) \o ", "
                        \o NatToStr(Len(dataframe.cols)) \o ")\nColumns: "
                        \o ReprList(dataframe.cols), <<>>)}
        ELSE IF has("sample")
        THEN LET k == LastCount(q)
             IN  {Reply("Random sample (" \o NatToStr(k) \o " rows):\n", <<t>>) :
                    t \in SampleRows(dataframe, IF k < n THEN k ELSE n)}
        ELSE {Reply("Dataframe summary:\n\n\nFirst 5 rows:\n",
                    <<dataframe, HeadRows(dataframe, 5)>>)}

\* execute_sql_query(query_description) of the agent on the outcome out of
\* its call of execute_complex_query
ExecuteSqlQueryOn(dataframe, out) ==
    IF out.kind = "error" THEN ErrorReply(out.error, dataframe) ELSE ResultsReply(out.table)

\* query_data(query) of the agent on the outcome out of its call of
\* execute_complex_query: the replies it can give
QueryDataOn(dataframe, q, out) ==
    IF out.kind = "error" THEN {ErrorReply(out.error, dataframe)}
    ELSE IF ~IsEmpty(out.table) THEN {ResultsReply(out.table)}
    ELSE QueryDataframe(q, dataframe)

---------------------------------------------------------------------------
(* statistical_tools.hypothesis_test *)

\* the error of stats.normaltest on fewer than 8 values, where scipy raises it
TooFewSamples == "ValueError: skewtest is not valid with less than 8 samples"

\* the square of the two-sided 5 % point of Student's t for 1 to 5 degrees
\* of freedom, times 100 (12.706, 4.303, 3.182, 2.776, 2.571 squared)
TCritical2 == <<16145, 1851, 1013, 771, 661>>

\* p_value < 0.05 for stats.ttest_1samp(data, value): with s = sum(x) and
\* q = n sum(x^2) - s^2 the statistic squared is (n - 1) (s - n value)^2 / q;
\* fewer than two values give nan, equal values give nan or an infinite t
TTestSignificant(xs, value) ==
    LET n == Len(xs)
        s == SumSeq(xs)
        q == n * SumSquares(xs) - s * s
        d == s - n * value
    IN  IF n < 2 THEN FALSE
        ELSE IF q = 0 THEN d # 0
        ELSE 100 * (n - 1) * d * d > TCritical2[n - 1] * q

\* the dict of the one-sample t-test
TTestRecord(xs, value) ==
    [NoRecord EXCEPT !.keys = {"test", "null_hypothesis", "t_statistic", "p_value",
                               "significant", "mean", "std"},
                     !.test = "One-Sample T-Test",
                     !.null_hypothesis = "Mean = " \o NatToStr(value),
                     !.significant = IF TTestSignificant(xs, value) THEN "Yes" ELSE "No"]

\* {'error': 'For two-sample t-test, provide two columns'}
TwoSampleRecord ==
    [NoRecord EXCEPT !.keys = {"error"},
                     !.error = "For two-sample t-test, provide two columns"]

\* the dict of the normality test, normal as given
NormalityRecord(normal) ==
    [NoRecord EXCEPT !.keys = {"test", "null_hypothesis", "statistic", "p_value", "normal"},
                     !.test = "Normality Test (D'Agostino)",
                     !.null_hypothesis = "Data is normally distributed",
                     !.normal = normal]

\* the normality branch: on fewer than 8 values stats.normaltest raises, or
\* (in a scipy that warns instead) gives a p-value of nan, which is not above
\* 0.05; the statistic of 8 values and more is not computed here, both
\* verdicts stand for it
NormalityOutcomes(xs) ==
    IF Len(xs) < 8
    THEN {[out |-> Raised(TooFewSamples), results |-> NoRecord],
          [out |-> ReturnedRecord, results |-> NormalityRecord("No")]}
    ELSE {[out |-> ReturnedRecord, results |-> NormalityRecord(normal)] :
            normal \in {"Yes", "No"}}

\* hypothesis_test(dataframe, column, test_type, value), value <<>> for None:
\* every outcome the call can have, with the dict returned
HypothesisTest(dataframe, column, test_type, value) ==
    IF ~HasColumn(dataframe, column)
    THEN {[out |-> Raised(ColumnNotFound), results |-> NoRecord]}
    ELSE LET data == DropNa(ColumnValues(dataframe, column))
             tested ==
                IF Lower(test_type) = "ttest" \/ Lower(test_type) = "t-test"
                THEN {[out |-> ReturnedRecord,
                       results |-> IF value # <<>> THEN TTestRecord(data, value[1])
                                   ELSE TwoSampleRecord]}
                ELSE IF Lower(test_type) = "normality" THEN NormalityOutcomes(data)
                ELSE {[out |-> ReturnedRecord, results |-> NoRecord]}
         IN  UNION {IF numeric THEN tested
                    ELSE {[out |-> Raised(MustBeNumeric), results |-> NoRecord]} :
                        numeric \in InNumberList(SeriesDtype(dataframe, column))}

---------------------------------------------------------------------------
(* The inputs of the model: tables, command strings, condition lists *)

AmountColumn == "amt"
StatusColumn == "st"

SessionColumns == <<AmountColumn, StatusColumn>>
SessionDtypes == (AmountColumn :> "num") @@ (StatusColumn :> "obj")

Cells(amount, status) == (AmountColumn :> Int2V(amount)) @@ (StatusColumn :> StrV(status))

\* the rows a table is made of
RowCells == {Cells(1, "a"), Cells(3, "b"), Cells(2, "a")}

\* the amount column under a name with a capital letter
CapitalColumn == "Amt"
CapitalColumns == <<CapitalColumn, StatusColumn>>
CapitalDtypes == (CapitalColumn :> "num") @@ (StatusColumn :> "obj")

\* every table of at most MaxRows rows, with the index labels 0, 1, ... of a
\* table that was just read
Tables ==
    {MkTable(SessionColumns, SessionDtypes, [i \in 1..n |-> MkRow(i - 1, cells[i])]) :
        <<n, cells>> \in UNION {{<<m, c>> : c \in [1..m -> RowCells]} : m \in 0..MaxRows}}

\* the tables of the session with the amount column named Amt
CapitalTables ==
    {MkTable(CapitalColumns, CapitalDtypes,
             [i \in 1..Len(t.rows) |->
                MkRow(t.rows[i].idx,
                      (CapitalColumn :> t.rows[i].cells[AmountColumn])
                          @@ (StatusColumn :> t.rows[i].cells[StatusColumn]))]) :
        t \in Tables}

\* the tables without rows over every choice of the columns: what
\* parse_natural_language_query reads of its dataframe is dataframe.columns
SchemaTables ==
    {MkTable(cols, [c \in {cols[i] : i \in 1..Len(cols)} |-> SessionDtypes[c]], <<>>) :
        cols \in {<<>>, <<AmountColumn>>, <<StatusColumn>>, SessionColumns}}

\* a clause of a command: its text, and what the writer means by it (the
\* column it names, the comparison, the number or text it gives)
Clause(kind, text, column, cmp, value) ==
    [kind |-> kind, text |-> text, column |-> column, cmp |-> cmp, value |-> value]
NoV == StrV("")

RECURSIVE ClauseSeqs(_, _)
\* the sequences of at most n clauses of a pool, no two of one kind
ClauseSeqs(pool, n) ==
    IF n = 0 THEN {<<>>}
    ELSE LET shorter == ClauseSeqs(pool, n - 1)
         IN  shorter \cup
             {Append(sc[1], sc[2]) :
                sc \in {x \in shorter \X pool :
                            \A i \in 1..Len(x[1]) : x[1][i].kind # x[2].kind}}

RECURSIVE JoinClauses(_)
\* the clauses written one after the other, a blank between two
JoinClauses(cs) ==
    IF cs = <<>> THEN ""
    ELSE IF Len(cs) = 1 THEN cs[1].text
    ELSE cs[1].text \o " " \o JoinClauses(Tail(cs))

ClauseLists(pool) == ClauseSeqs(pool, MaxClauses)

\* clauses on columns of the table, with numbers float() accepts
WellFormedClauses ==
    { Clause("order", "ORDER BY amt", "amt", "", NoV),
      Clause("order", "sorted by st", "st", "", NoV),
      Clause("direction", "desc", "", "", NoV),
      Clause("limit", "limit 2", "", "", Int2V(2)),
      Clause("limit", "top 0", "", "", Int2V(0)),
      Clause("where", "where amt > 1", "amt", ">", Int2V(1)),
      Clause("where", "WHERE amt<=2.5", "amt", "<=", NumV(5, 2)),
      Clause("group", "group by st", "st", "", NoV) }

\* clauses on a column the table does not have, with a text float() does
\* not accept, or comparing the text column with a number
LenientClauses ==
    { Clause("order", "order by zz", "zz", "", NoV),
      Clause("order", "sort by amt", "amt", "", NoV),
      Clause("limit", "limit 1", "", "", Int2V(1)),
      Clause("where", "where zz > 1", "zz", ">", Int2V(1)),
      Clause("where", "where zz <= 1.2.3", "zz", "<=", NoV),
      Clause("where", "where amt >= .", "amt", ">=", NoV),
      Clause("where", "where st < 2", "st", "<", Int2V(2)),
      Clause("group", "group by zz", "zz", "", NoV),
      Clause("group", "group by st", "st", "", NoV) }

\* clauses in the phrasings parse_natural_language_query looks for
ParseClauses ==
    { Clause("order", "order by amt", "amt", "", NoV),
      Clause("order", "sort st", "st", "", NoV),
      Clause("order", "sort by zz", "zz", "", NoV),
      Clause("direction", "Descending", "", "", NoV),
      Clause("where", "where amt >= 1", "amt", ">=", Int2V(1)),
      Clause("where", "where zz < 1.2.3", "zz", "<", NoV),
      Clause("where_is", "where st is a", "st", "==", StrV("a")),
      Clause("where_words", "where amt greater than 2", "amt", ">", Int2V(2)),
      Clause("group", "grouped by st", "st", "", NoV),
      Clause("group", "group by zz", "zz", "", NoV),
      Clause("limit", "first 1", "", "", Int2V(1)) }

\* clauses for complex_query
ComplexClauses ==
    { Clause("order", "order by amt", "amt", "", NoV),
      Clause("order", "sort by zz desc", "zz", "", NoV),
      Clause("where", "where amt >= 2", "amt", ">=", Int2V(2)),
      Clause("where", "where zz != 1", "zz", "!=", Int2V(1)),
      Clause("group", "group by st", "st", "", NoV),
      Clause("group", "group zz", "zz", "", NoV),
      Clause("limit", "limit 0", "", "", Int2V(0)),
      Clause("limit", "top 2", "", "", Int2V(2)) }

\* clauses of the commands given to the tools of the agent: a WHERE no row
\* satisfies, clauses that make execute_complex_query fail, words that
\* query_dataframe looks for
ToolClauses ==
    { Clause("order", "order by amt desc", "amt", "", NoV),
      Clause("limit", "first 0", "", "", Int2V(0)),
      Clause("limit", "limit 1", "", "", Int2V(1)),
      Clause("where", "where amt > 5", "amt", ">", Int2V(5)),
      Clause("where", "where amt >= 1.2.3", "amt", ">=", NoV),
      Clause("where", "where st < 2", "st", "<", Int2V(2)),
      Clause("show", "show columns", "", "", NoV),
      Clause("show", "show last 10", "", "", NoV) }

\* clauses that write the amount column with a capital letter, as the tests
\* of the repository write TotalAmount and OrderStatus, in phrasings both
\* query paths look for
MixedCaseClauses ==
    { Clause("order", "order by Amt desc", "Amt", "", NoV),
      Clause("order", "sort by st", "st", "", NoV),
      Clause("where", "where Amt > 1", "Amt", ">", Int2V(1)),
      Clause("where", "where Amt <= 1.2.3", "Amt", "<=", NoV),
      Clause("group", "group by Amt", "Amt", "", NoV),
      Clause("group", "group by st", "st", "", NoV),
      Clause("limit", "limit 1", "", "", Int2V(1)) }

\* the clause lists of every pool, each pool listed once
ClauseListsOf ==
    [pool \in {WellFormedClauses, LenientClauses, ParseClauses, ComplexClauses,
              ToolClauses, MixedCaseClauses} |->
        ClauseLists(pool)]

\* the commands of a pool
CommandsOf(pool) == {JoinClauses(cs) : cs \in ClauseListsOf[pool]}

\* the matches of every command of the model, each command matched once
ExecuteMatchesOf ==
    [q \in CommandsOf(WellFormedClauses) \cup CommandsOf(LenientClauses)
            \cup CommandsOf(ToolClauses) \cup CommandsOf(MixedCaseClauses) |->
        ExecuteMatches(q)]
ParseMatchesOf ==
    [q \in CommandsOf(ParseClauses) \cup CommandsOf(ComplexClauses)
            \cup CommandsOf(MixedCaseClauses) |-> ParseMatches(q)]

\* the conditions a caller hands to multi_condition_filter
Conditions ==
    { MkCond("amt", ">", Int2V(1), <<>>),
      MkCond("amt", "<=", Int2V(2), <<>>),
      MkCond("amt", "==", Int2V(3), <<>>),
      MkCond("st", "!=", StrV("a"), <<>>),
      MkCond("st", "contains", StrV("A"), <<>>),
      MkCond("amt", "between", ListV, <<Int2V(2), Int2V(3)>>),
      MkCond("st", "in", ListV, <<StrV("b")>>),
      MkCond("zz", ">", Int2V(0), <<>>) }

ConditionLists == UNION {[1..n -> Conditions] : n \in 0..MaxConds}

QuantityColumn == "qty"
OrderColumns == <<AmountColumn, QuantityColumn, StatusColumn>>
OrderDtypes ==
    (AmountColumn :> "num") @@ (QuantityColumn :> "num") @@ (StatusColumn :> "obj")

OrderCells(amount, quantity, status) ==
    (AmountColumn :> amount) @@ (QuantityColumn :> quantity) @@ (StatusColumn :> status)

\* the rows of a table of orders; an amount can be missing
OrderRowCells ==
    { OrderCells(Int2V(1), Int2V(2), StrV("a")),
      OrderCells(NullV, Int2V(1), StrV("a")),
      OrderCells(Int2V(4), Int2V(1), StrV("b")) }

\* every table of orders of at most MaxRows rows
OrderTables ==
    {MkTable(OrderColumns, OrderDtypes, [i \in 1..n |-> MkRow(i - 1, cells[i])]) :
        <<n, cells>> \in UNION {{<<m, c>> : c \in [1..m -> OrderRowCells]} : m \in 0..MaxRows}}

\* the arguments of the calls of group_by_aggregate
GroupColumns == {StatusColumn, "zz"}
AggFunctions ==
    {"sum", "mean", "average", "Count", "max", "MAX", "min", "std", "stddev", "median"}
AggColumns == {"", AmountColumn, QuantityColumn, "zz"}

\* the lines of the texts handed to parse_text_to_dataframe
TextLines ==
    { "| A | B |", "|---|---|", "---", "| 1 | 2 |", "| 3 | 4 |", "| 5 |", "| 6 | 7 | 8 |",
      "", "total" }

\* the lines of the texts handed to extract_dataframe_from_result
ExtractLines == {"| A | B |", "| 1 | 2 |", "total", "Pearson: x and y: -0.5"}

\* the lines of a text, one to n of them, out of the pool
LinesOf(pool, n) == UNION {[1..k -> pool] : k \in 1..n}

\* the scan of every line of the pools
ScanLineOf == [line \in TextLines \cup ExtractLines |-> ScanLine(line)]

\* the scans of the lines
ScansOf(lines) == [i \in 1..Len(lines) |-> ScanLineOf[lines[i]]]

\* the queries handed over with a result text
ResultQueries == {"", "sort by amt desc limit 1", "order by amt"}

\* the values of an aggregations dict: a name or a list of names
AggValues ==
    { [funcs |-> <<"mean">>, is_list |-> FALSE], [funcs |-> <<"sum">>, is_list |-> FALSE],
      [funcs |-> <<"sum">>, is_list |-> TRUE], [funcs |-> <<"sum", "mean">>, is_list |-> TRUE] }
\* the items of an aggregations dict
AggItems ==
    {MkAgg(c, v.funcs, v.is_list) : c \in {AmountColumn, QuantityColumn, "zz"}, v \in AggValues}
\* the aggregations dicts of at most MaxAggs columns
AggMaps ==
    {m \in UNION {[1..n -> AggItems] : n \in 0..MaxAggs} :
        \A i, j \in 1..Len(m) : i # j => m[i].column # m[j].column}

\* the calls of filter_dataframe: column, condition, value
StrictFilters ==
    { MkCond(column, cv[1], cv[2], cv[3]) :
        column \in {AmountColumn, StatusColumn, "zz"},
        cv \in { <<"greater", Int2V(1), <<>> >>,
                 <<"Less", Int2V(3), <<>> >>,
                 <<"equal", StrV("a"), <<>> >>,
                 <<"contains", StrV("A"), <<>> >>,
                 <<"between", ListV, <<Int2V(2), Int2V(3)>> >>,
                 <<"range", ListV, <<Int2V(1), Int2V(1)>> >>,
                 <<"between", Int2V(2), <<>> >>,
                 <<"like", StrV("a"), <<>> >> } }

Logics == {"AND", "OR"}

\* the values of a sample: whole numbers and the missing value
SampleValues == {NullV, Int2V(0), Int2V(1), Int2V(2), Int2V(3)}

\* every table of one numeric column with at most MaxSample rows
SampleTables ==
    {MkTable(<<AmountColumn>>, (AmountColumn :> "num"),
             [i \in 1..Len(values) |-> MkRow(i - 1, (AmountColumn :> values[i]))]) :
        values \in UNION {[1..n -> SampleValues] : n \in 0..MaxSample}}

\* the columns a statistics call names: one of the table, one it lacks
SampleColumns == {AmountColumn, "zz"}

\* the values of a column searched for outliers
OutlierValues == {NullV, Int2V(1), Int2V(2), Int2V(3), Int2V(4), Int2V(100)}

\* the column [1, 2, 3, 4, 100]
OutlierExample == <<Int2V(1), Int2V(2), Int2V(3), Int2V(4), Int2V(100)>>

\* a table of a numeric and a text column, the numeric column as given
OutlierTable(values) ==
    MkTable(SessionColumns, SessionDtypes,
            [i \in 1..Len(values) |->
                MkRow(i - 1, (AmountColumn :> values[i]) @@ (StatusColumn :> StrV("a")))])

\* every such table with at most MaxSample rows, the example, and the
\* example with a missing value after it (a float64 column)
OutlierTables ==
    {OutlierTable(values) :
        values \in UNION {[1..n -> OutlierValues] : n \in 0..MaxSample}
                        \cup {OutlierExample, Append(OutlierExample, NullV)}}

OutlierColumns == {AmountColumn, StatusColumn, "zz"}
OutlierMethods == {"iqr", "IQR", "zscore", "mad"}

PriceColumn == "price"
FeatureColumns == <<AmountColumn, QuantityColumn, PriceColumn, StatusColumn>>
FeatureDtypes ==
    (AmountColumn :> "num") @@ (QuantityColumn :> "num") @@ (PriceColumn :> "num")
        @@ (StatusColumn :> "obj")

FeatureCells(amount, quantity, price, status) ==
    (AmountColumn :> amount) @@ (QuantityColumn :> quantity) @@ (PriceColumn :> price)
        @@ (StatusColumn :> StrV(status))

\* the rows of a table of three numeric columns and a text column; an
\* amount can be missing
FeatureRowCells ==
    { FeatureCells(Int2V(1), Int2V(1), Int2V(1), "a"),
      FeatureCells(Int2V(2), Int2V(2), Int2V(3), "b"),
      FeatureCells(Int2V(3), Int2V(2), Int2V(2), "a"),
      FeatureCells(NullV, Int2V(2), Int2V(1), "b") }

\* every such table of at most MaxRows rows
FeatureTables ==
    {MkTable(FeatureColumns, FeatureDtypes, [i \in 1..Len(cells) |-> MkRow(i - 1, cells[i])]) :
        cells \in UNION {[1..n -> FeatureRowCells] : n \in 0..MaxRows}}

\* the targets of feature_importance: every column, and one the table lacks
TargetColumns == {AmountColumn, QuantityColumn, PriceColumn, StatusColumn, "zz"}

\* the arguments of the calls of hypothesis_test
TestTypes == {"ttest", "T-Test", "normality", "independence"}
TestValues == {<<>>, <<2>>}

---------------------------------------------------------------------------
(* The session: one table, one call at a time *)

\* no further argument
NoArgs ==
    [group_by |-> "", agg_function |-> "", agg_column |-> "", aggregations |-> <<>>,
     result_text |-> "", column |-> "", method |-> "", test_type |-> "",
     value |-> <<>>, target_column |-> ""]

InitCall ==
    /\ pc = "idle"
    /\ op = "none"
    /\ query = ""
    /\ clauses = <<>>
    /\ args = NoArgs
    /\ conds = <<>>
    /\ logic = "AND"
    /\ result = NoResult
    /\ record = NoRecord
    /\ reply = NoReply
    /\ parsed = NoOperations

\* a session on a table that was read: any rows, or no rows under any header
Init == df \in Tables \cup SchemaTables /\ InitCall

\* a session on a table of orders
InitOrders == df \in OrderTables /\ InitCall

\* a session on a table of at most one row, for the calls on result texts
InitText == df \in {t \in Tables : Len(t.rows) <= 1} /\ InitCall

\* a session on a sample
InitSamples == df \in SampleTables /\ InitCall

\* a session on a table searched for outliers
InitOutliers == df \in OutlierTables /\ InitCall

\* a session on a table of features
InitFeatures == df \in FeatureTables /\ InitCall

\* a session of the agent, on a table of at most two rows
InitTools == df \in {t \in Tables \cup SchemaTables : Len(t.rows) <= 2} /\ InitCall

\* a session on a table whose amount column is named Amt
InitCapital == df \in CapitalTables /\ InitCall

\* a session on a table without rows
InitSchema == df \in SchemaTables /\ InitCall

\* a call of execute_complex_query(df, q), q written from clauses of pool
CallExecuteComplexQuery(pool) ==
    /\ pc = "idle"
    /\ \E cs \in ClauseListsOf[pool] :
        \E out \in ExecuteComplexQueryOn(df, ExecuteMatchesOf[JoinClauses(cs)]) :
            /\ clauses' = cs
            /\ query' = JoinClauses(cs)
            /\ result' = out
    /\ op' = "execute_complex_query"
    /\ pc' = "done"
    /\ UNCHANGED <<df, reply, record, args, conds, logic, parsed>>

ExecuteCall == CallExecuteComplexQuery(WellFormedClauses)

LenientExecuteCall == CallExecuteComplexQuery(LenientClauses)

MixedCaseExecuteCall == CallExecuteComplexQuery(MixedCaseClauses)

\* a call of parse_natural_language_query(q, df), q written from clauses of pool
CallParseNaturalLanguageQuery(pool) ==
    /\ pc = "idle"
    /\ \E cs \in ClauseListsOf[pool] :
        LET p == ParseOn(df, ParseMatchesOf[JoinClauses(cs)])
        IN  /\ clauses' = cs
            /\ query' = JoinClauses(cs)
            /\ result' = IF p.raised THEN Raised(FloatError) ELSE ReturnedOperations
            /\ parsed' = p.operations
    /\ op' = "parse_natural_language_query"
    /\ pc' = "done"
    /\ UNCHANGED <<df, reply, record, args, conds, logic>>

ParseCall == CallParseNaturalLanguageQuery(ParseClauses)

MixedCaseParseCall == CallParseNaturalLanguageQuery(MixedCaseClauses)

\* a call of complex_query(df, q), q written from clauses of pool
CallComplexQuery(pool) ==
    /\ pc = "idle"
    /\ \E cs \in ClauseListsOf[pool] :
        LET m == ParseMatchesOf[JoinClauses(cs)]
        IN  \E out \in ComplexQueryOn(df, m) :
                /\ clauses' = cs
                /\ query' = JoinClauses(cs)
                /\ result' = out
                /\ parsed' = ParseOn(df, m).operations
    /\ op' = "complex_query"
    /\ pc' = "done"
    /\ UNCHANGED <<df, reply, record, args, conds, logic>>

ComplexCall == CallComplexQuery(ComplexClauses)

MixedCaseComplexCall == CallComplexQuery(MixedCaseClauses)

\* a call of multi_condition_filter(df, conditions, logic)
FilterCall ==
    /\ pc = "idle"
    /\ \E conditions \in ConditionLists, l \in Logics :
        /\ conds' = conditions
        /\ logic' = l
        /\ result' = MultiConditionFilter(df, conditions, l)
    /\ op' = "multi_condition_filter"
    /\ pc' = "done"
    /\ UNCHANGED <<df, reply, record, args, query, clauses, parsed>>

\* a call of filter_dataframe(column, condition, value, df)
StrictFilterCall ==
    /\ pc = "idle"
    /\ \E c \in StrictFilters :
        /\ conds' = <<c>>
        /\ result' = FilterDataframe(c.column, c.operator, c.value, c.items, df)
    /\ op' = "filter_dataframe"
    /\ pc' = "done"
    /\ UNCHANGED <<df, reply, record, args, query, clauses, logic, parsed>>

\* a call of execute_sql_like_query(df, where_conditions=[c])
SqlWhereCall ==
    /\ pc = "idle"
    /\ \E c \in Conditions :
        /\ conds' = <<c>>
        /\ result' \in ExecuteSqlLikeQuery(df, <<c>>, "", "", "asc", <<>>)
    /\ op' = "execute_sql_like_query"
    /\ pc' = "done"
    /\ UNCHANGED <<df, reply, record, args, query, clauses, logic, parsed>>

\* a call of group_by_aggregate(df, group_by, agg_function, agg_column)
GroupByAggregateCall ==
    /\ pc = "idle"
    /\ \E g \in GroupColumns, f \in AggFunctions, a \in AggColumns :
        /\ args' = [NoArgs EXCEPT !.group_by = g, !.agg_function = f, !.agg_column = a]
        /\ result' = GroupByAggregate(df, g, f, a)
    /\ op' = "group_by_aggregate"
    /\ pc' = "done"
    /\ UNCHANGED <<df, reply, record, query, clauses, conds, logic, parsed>>

\* a call of data_tools.advanced_group_by(df, group_by, aggregations)
AdvancedGroupByCall ==
    /\ pc = "idle"
    /\ \E g \in GroupColumns, m \in AggMaps :
        /\ args' = [NoArgs EXCEPT !.group_by = g, !.aggregations = m]
        /\ result' = AdvancedGroupBy(df, g, m)
    /\ op' = "advanced_group_by"
    /\ pc' = "done"
    /\ UNCHANGED <<df, reply, record, query, clauses, conds, logic, parsed>>

\* a call of advanced_data_tools.advanced_group_by(df, group_by, aggregations)
SqlAdvancedGroupByCall ==
    /\ pc = "idle"
    /\ \E g \in GroupColumns, m \in AggMaps :
        /\ args' = [NoArgs EXCEPT !.group_by = g, !.aggregations = m]
        /\ result' = SqlAdvancedGroupBy(df, g, m)
    /\ op' = "advanced_data_tools.advanced_group_by"
    /\ pc' = "done"
    /\ UNCHANGED <<df, reply, record, query, clauses, conds, logic, parsed>>

\* a call of parse_text_to_dataframe(text, df)
ParseTextCall ==
    /\ pc = "idle"
    /\ \E lines \in LinesOf(TextLines, MaxLines) :
        /\ ~ReadCsvAttempted(ScansOf(lines))
        /\ args' = [NoArgs EXCEPT !.result_text = JoinLines(lines)]
        /\ result' = ParseTextOn(ScansOf(lines))
    /\ op' = "parse_text_to_dataframe"
    /\ pc' = "done"
    /\ UNCHANGED <<df, reply, record, query, clauses, conds, logic, parsed>>

\* a call of extract_dataframe_from_result(result_text, df, query)
ExtractCall ==
    /\ pc = "idle"
    /\ \E lines \in LinesOf(ExtractLines, MaxExtractLines), q \in ResultQueries :
        /\ ~ReadCsvAttempted(ScansOf(lines))
        /\ args' = [NoArgs EXCEPT !.result_text = JoinLines(lines)]
        /\ query' = q
        /\ result' \in ExtractOn(ParseTextOn(ScansOf(lines)), JoinLines(lines), df, q)
    /\ op' = "extract_dataframe_from_result"
    /\ pc' = "done"
    /\ UNCHANGED <<df, reply, record, clauses, conds, logic, parsed>>

\* a call of distribution_analysis(df, column)
DistributionAnalysisCall ==
    /\ pc = "idle"
    /\ \E column \in SampleColumns :
        LET r == DistributionAnalysis(df, column)
        IN  /\ args' = [NoArgs EXCEPT !.column = column]
            /\ result' = r.out
            /\ record' = r.analysis
    /\ op' = "distribution_analysis"
    /\ pc' = "done"
    /\ UNCHANGED <<df, reply, query, clauses, conds, logic, parsed>>

\* a call of detect_outliers(df, column, method)
DetectOutliersCall ==
    /\ pc = "idle"
    /\ \E column \in OutlierColumns, method \in OutlierMethods :
        /\ args' = [NoArgs EXCEPT !.column = column, !.method = method]
        /\ result' \in DetectOutliers(df, column, method)
    /\ op' = "detect_outliers"
    /\ pc' = "done"
    /\ UNCHANGED <<df, reply, record, query, clauses, conds, logic, parsed>>

\* a call of feature_importance(df, target_column)
FeatureImportanceCall ==
    /\ pc = "idle"
    /\ \E target_column \in TargetColumns :
        /\ args' = [NoArgs EXCEPT !.target_column = target_column]
        /\ result' \in FeatureImportance(df, target_column)
    /\ op' = "feature_importance"
    /\ pc' = "done"
    /\ UNCHANGED <<df, reply, record, query, clauses, conds, logic, parsed>>

\* a call of the tool query_data(query): result is the outcome of its call
\* of execute_complex_query, reply the text it returns
QueryDataCall ==
    /\ pc = "idle"
    /\ \E cs \in ClauseListsOf[ToolClauses] :
        \E out \in ExecuteComplexQueryOn(df, ExecuteMatchesOf[JoinClauses(cs)]) :
            /\ clauses' = cs
            /\ query' = JoinClauses(cs)
            /\ result' = out
            /\ reply' \in QueryDataOn(df, JoinClauses(cs), out)
    /\ op' = "query_data"
    /\ pc' = "done"
    /\ UNCHANGED <<df, record, args, conds, logic, parsed>>

\* a call of the tool execute_sql_query(query_description)
ExecuteSqlQueryCall ==
    /\ pc = "idle"
    /\ \E cs \in ClauseListsOf[ToolClauses] :
        \E out \in ExecuteComplexQueryOn(df, ExecuteMatchesOf[JoinClauses(cs)]) :
            /\ clauses' = cs
            /\ query' = JoinClauses(cs)
            /\ result' = out
            /\ reply' = ExecuteSqlQueryOn(df, out)
    /\ op' = "execute_sql_query"
    /\ pc' = "done"
    /\ UNCHANGED <<df, record, args, conds, logic, parsed>>

\* a call of hypothesis_test(df, column, test_type, value)
HypothesisTestCall ==
    /\ pc = "idle"
    /\ \E column \in OutlierColumns, test_type \in TestTypes, value \in TestValues :
        \E r \in HypothesisTest(df, column, test_type, value) :
            /\ args' = [NoArgs EXCEPT !.column = column, !.test_type = test_type,
                                      !.value = value]
            /\ result' = r.out
            /\ record' = r.results
    /\ op' = "hypothesis_test"
    /\ pc' = "done"
    /\ UNCHANGED <<df, reply, query, clauses, conds, logic, parsed>>

\* the caller takes the result and is ready for the next call
Return ==
    /\ pc = "done"
    /\ pc' = "idle"
    /\ op' = "none"
    /\ query' = ""
    /\ clauses' = <<>>
    /\ args' = NoArgs
    /\ conds' = <<>>
    /\ logic' = "AND"
    /\ result' = NoResult
    /\ record' = NoRecord
    /\ reply' = NoReply
    /\ parsed' = NoOperations
    /\ UNCHANGED df

NextExecute == ExecuteCall \/ Return
NextExecuteLenient == LenientExecuteCall \/ Return
NextParse == ParseCall \/ Return
NextComplex == ComplexCall \/ Return
NextFilter == FilterCall \/ Return
NextAggregate == GroupByAggregateCall \/ Return
NextAdvanced == AdvancedGroupByCall \/ SqlAdvancedGroupByCall \/ Return
NextText == ParseTextCall \/ ExtractCall \/ Return
NextDistribution == DistributionAnalysisCall \/ Return

NextOutliers == DetectOutliersCall \/ Return

NextFeatures == FeatureImportanceCall \/ Return

NextTools == QueryDataCall \/ ExecuteSqlQueryCall \/ Return

NextHypothesis == HypothesisTestCall \/ Return

NextMixedCase == MixedCaseExecuteCall \/ MixedCaseParseCall \/ Return

NextBothPaths == MixedCaseExecuteCall \/ MixedCaseComplexCall \/ Return

NextConditions == FilterCall \/ StrictFilterCall \/ SqlWhereCall \/ Return
Next ==
    \/ ExecuteCall \/ LenientExecuteCall \/ ParseCall \/ ComplexCall
    \/ FilterCall \/ StrictFilterCall \/ SqlWhereCall
    \/ GroupByAggregateCall \/ AdvancedGroupByCall \/ SqlAdvancedGroupByCall
    \/ ParseTextCall \/ ExtractCall
    \/ DistributionAnalysisCall \/ DetectOutliersCall \/ FeatureImportanceCall
    \/ QueryDataCall \/ ExecuteSqlQueryCall \/ HypothesisTestCall
    \/ MixedCaseExecuteCall \/ MixedCaseParseCall \/ MixedCaseComplexCall
    \/ Return

\* the calls of execute_complex_query with well-formed clauses
SpecExecute == Init /\ [][NextExecute]_vars
\* the calls of execute_complex_query with clauses it cannot apply
SpecExecuteLenient == Init /\ [][NextExecuteLenient]_vars
\* the calls of parse_natural_language_query, on every schema
SpecParse == InitSchema /\ [][NextParse]_vars
\* the calls of complex_query
SpecComplex == Init /\ [][NextComplex]_vars
\* the calls of multi_condition_filter
SpecFilter == Init /\ [][NextFilter]_vars
\* the calls of the three paths that take conditions
SpecConditions == Init /\ [][NextConditions]_vars
\* the calls of group_by_aggregate, on tables of orders
SpecAggregate == InitOrders /\ [][NextAggregate]_vars
\* the calls of both versions of advanced_group_by, on tables of orders
SpecAdvanced == InitOrders /\ [][NextAdvanced]_vars
\* the calls of parse_text_to_dataframe and extract_dataframe_from_result
SpecText == InitText /\ [][NextText]_vars
\* the calls of distribution_analysis, on samples
SpecDistribution == InitSamples /\ [][NextDistribution]_vars

\* the calls of detect_outliers
SpecOutliers == InitOutliers /\ [][NextOutliers]_vars

\* the calls of feature_importance
SpecFeatures == InitFeatures /\ [][NextFeatures]_vars

\* the calls of the tools query_data and execute_sql_query
SpecTools == InitTools /\ [][NextTools]_vars

\* the calls of hypothesis_test
SpecHypothesis == InitOutliers /\ [][NextHypothesis]_vars

\* both query paths on a table whose amount column is named Amt
SpecMixedCase == InitCapital /\ [][NextMixedCase]_vars

\* execute_complex_query and complex_query on the commands of one pool
SpecBothPaths == Init /\ [][NextBothPaths]_vars

\* every call
Spec == Init /\ [][Next]_vars

---------------------------------------------------------------------------
(* The reading of a call: what the caller wrote, and what came back *)

\* the kinds of the clauses of the command
Kinds == {clauses[i].kind : i \in 1..Len(clauses)}
Written(kind) == kind \in Kinds
\* the clause of a kind that was written
TheClause(kind) == clauses[CHOOSE i \in 1..Len(clauses) : clauses[i].kind = kind]

Executed == pc = "done" /\ op = "execute_complex_query"
Parsed == pc = "done" /\ op = "parse_natural_language_query"
Queried == pc = "done" /\ op = "complex_query"
Filtered == pc = "done" /\ op = "multi_condition_filter"

\* the value of a row in a column
Cell(row, col) == row.cells[col]

\* the sorts of the table the ORDER BY clause asks for; the table itself when
\* no ORDER BY on a column of the table was written
SortedAsWritten ==
    IF Written("order") /\ HasColumn(df, TheClause("order").column)
    THEN SortValues(df, TheClause("order").column, ~Written("direction"))
    ELSE {df}

\* the first n rows, n of the LIMIT clause
TruncatedAsWritten(t) ==
    IF Written("limit") THEN HeadRows(t, TheClause("limit").value.num) ELSE t

\* the rows that satisfy the WHERE clause
FilteredAsWritten(t) ==
    IF Written("where") /\ HasColumn(df, TheClause("where").column)
    THEN LET w == TheClause("where")
         IN  WithRows(t, KeepRows(t.rows, CompareMask(t, w.column, w.cmp, w.value)))
    ELSE t

\* gt has one row per value of col among rows, with the number of rows that
\* hold the value in its count column
IsGroupCount(gt, rows, col) ==
    /\ gt.cols = <<col, CountColumn>>
    /\ \A j \in 1..Len(rows) :
        \E i \in 1..Len(gt.rows) : Cell(gt.rows[i], col) = Cell(rows[j], col)
    /\ \A i, k \in 1..Len(gt.rows) :
        i # k => Cell(gt.rows[i], col) # Cell(gt.rows[k], col)
    /\ \A i \in 1..Len(gt.rows) :
        LET holders == {j \in 1..Len(rows) : Cell(rows[j], col) = Cell(gt.rows[i], col)}
        IN  holders # {} /\ Cell(gt.rows[i], CountColumn) = Int2V(Cardinality(holders))

---------------------------------------------------------------------------
(* C1: ORDER BY, LIMIT n and a numeric WHERE, no GROUP BY *)

C1_Case ==
    /\ Executed
    /\ {"order", "limit", "where"} \subseteq Kinds
    /\ ~Written("group")
    /\ HasColumn(df, TheClause("order").column)
    /\ HasColumn(df, TheClause("where").column)
    /\ df.dtypes[TheClause("where").column] = "num"

---------------------------------------------------------------------------
(* C2: order by C desc limit n *)

C2_Case ==
    /\ Executed
    /\ Kinds = {"order", "direction", "limit"}
    /\ HasColumn(df, TheClause("order").column)

---------------------------------------------------------------------------
(* C3: group by G *)

C3_Case ==
    /\ Executed
    /\ Written("group")
    /\ HasColumn(df, TheClause("group").column)

---------------------------------------------------------------------------
(* C4: execute_complex_query and clauses it cannot apply *)

\* a clause that names no column, or a column of the table
OnKnownColumn(c) == c.column = "" \/ HasColumn(df, c.column)

\* C4: execute_complex_query never raises, and a clause that names a column
\* the table does not have is skipped: the result is a result of the command
\* without that clause
C4_SkipsAndNeverRaises ==
    Executed =>
        /\ result.kind = "table"
        /\ result \in ExecuteComplexQueryOn(
                        df, ExecuteMatchesOf[JoinClauses(SelectSeq(clauses, OnKnownColumn))])

---------------------------------------------------------------------------
(* C5, C6, C7: the operations parse_natural_language_query returns *)

\* C5: parse_natural_language_query never fails: it returns its operations
\* for every command and every schema, also for a WHERE clause whose value
\* is no number
C5_ParseNeverFails ==
    Parsed => result.kind = "operations"

\* C6: the operations hold at most one WHERE condition
C6_AtMostOneCondition ==
    Parsed /\ result.kind = "operations" => Len(parsed.where_conditions) <= 1

\* the command holds "desc", in any letter case
DescWritten == Contains(Lower(query), "desc")

\* C7, as stated: the direction is 'desc' whenever the command contains
\* "desc", and 'asc' otherwise
C7_DescWheneverWritten ==
    Parsed /\ result.kind = "operations" =>
        parsed.order_direction = IF DescWritten THEN "desc" ELSE "asc"

\* C7, as the code has it: the direction is 'desc' exactly when the command
\* contains "desc" and an ORDER BY clause on a column of the schema was
\* recognised, wherever "desc" stands in the command; it is 'asc' otherwise
C7_DescOnlyWithOrderBy ==
    Parsed /\ result.kind = "operations" =>
        parsed.order_direction =
            IF DescWritten /\ parsed.order_by # "" THEN "desc" ELSE "asc"

\* a command whose first word is the direction, before its ORDER BY clause,
\* was parsed to a descending order
C7_Witness ==
    /\ Parsed
    /\ result.kind = "operations"
    /\ Len(clauses) >= 2
    /\ clauses[1].kind = "direction"
    /\ parsed.order_by # ""
    /\ parsed.order_direction = "desc"

---------------------------------------------------------------------------
(* C8, C9: complex_query *)

\* C8: every column the operations name (order_by, group_by, the column of
\* each WHERE condition) is a column of the table, and complex_query never
\* raises the column-not-found error of execute_sql_like_query
C8_OnlyKnownColumns ==
    Queried =>
        /\ parsed.order_by \in Columns(df) \cup {""}
        /\ parsed.group_by \in Columns(df) \cup {""}
        /\ \A i \in 1..Len(parsed.where_conditions) :
            parsed.where_conditions[i].column \in Columns(df)
        /\ ~(result.kind = "error" /\ result.error = ColumnNotFound)

\* a command with a WHERE clause on a column the table does not have came
\* back with a table, and with no condition in its operations
C8_Witness ==
    /\ Queried
    /\ Written("where")
    /\ ~HasColumn(df, TheClause("where").column)
    /\ Written("order")
    /\ ~HasColumn(df, TheClause("order").column)
    /\ parsed.where_conditions = <<>>
    /\ parsed.order_by = ""
    /\ result.kind = "table"
    /\ df.rows # <<>>

\* C9: a command with "limit N", "first N" or "top N" gives a table of at
\* most N rows, also for N = 0
C9_AtMostLimitRows ==
    Queried /\ Written("limit") /\ result.kind = "table" =>
        Len(result.table.rows) <= TheClause("limit").value.num

---------------------------------------------------------------------------
(* C10: multi_condition_filter *)

\* a cell satisfies a condition, for each operator a Condition can have
Satisfies(cell, c) ==
    CASE c.operator = "between" ->
            ~ValLess(cell, c.items[1]) /\ ~ValLess(c.items[2], cell)
      [] c.operator = "in" ->
            \E k \in 1..Len(c.items) : ValEq(cell, c.items[k])
      [] c.operator = "contains" ->
            Contains(Lower(StrOfValue(cell)), Lower(StrOfValue(c.value)))
      [] OTHER -> Compare(c.operator, cell, c.value)

\* the filter of one condition: the positions of the rows that satisfy it
PerConditionRows(c) ==
    {i \in 1..Len(df.rows) : Satisfies(Cell(df.rows[i], c.column), c)}

\* C10: for conditions on columns of the table, multi_condition_filter with
\* AND returns the rows in the intersection of the filters of the conditions,
\* with OR the rows in their union, and with no condition the table itself
C10_IntersectionAndUnion ==
    Filtered /\ (\A i \in 1..Len(conds) : HasColumn(df, conds[i].column)) =>
        /\ result.kind = "table"
        /\ LET all == {r \in 1..Len(df.rows) :
                          \A i \in 1..Len(conds) : r \in PerConditionRows(conds[i])}
               some == {r \in 1..Len(df.rows) :
                          \E i \in 1..Len(conds) : r \in PerConditionRows(conds[i])}
           IN  result.table =
                   IF conds = <<>> THEN df
                   ELSE WithRows(df, KeepRows(df.rows, IF logic = "AND" THEN all ELSE some))

---------------------------------------------------------------------------
(* C11, C12: between, and the strict filter *)

StrictFiltered == pc = "done" /\ op = "filter_dataframe"
SqlFiltered == pc = "done" /\ op = "execute_sql_like_query"

\* the rows of the table with lo <= x <= hi in the column of the condition
RowsBetween(c) ==
    KeepRows(df.rows, {i \in 1..Len(df.rows) :
                          /\ ~ValLess(Cell(df.rows[i], c.column), c.items[1])
                          /\ ~ValLess(c.items[2], Cell(df.rows[i], c.column))})

\* the call had one condition, a between with a pair of numbers on a numeric
\* column of the table
OneBetween ==
    /\ Filtered \/ StrictFiltered \/ SqlFiltered
    /\ Len(conds) = 1
    /\ Lower(conds[1].operator) \in BetweenWords
    /\ conds[1].value.kind = "list"
    /\ HasColumn(df, conds[1].column)
    /\ df.dtypes[conds[1].column] = "num"

\* C11: a between condition with a pair (lo, hi) selects the rows with
\* lo <= x <= hi, both ends included, in multi_condition_filter, in
\* filter_dataframe and in execute_sql_like_query
C11_BetweenInclusive ==
    OneBetween =>
        /\ result.kind = "table"
        /\ result.table.rows = RowsBetween(conds[1])

\* C12: filter_dataframe fails with the column-not-found error for every call
\* whose column is not in the table, also for a table without rows
C12_UnknownColumnFails ==
    StrictFiltered /\ ~HasColumn(df, conds[1].column) =>
        result = Raised(ColumnNotFound)

---------------------------------------------------------------------------
(* C13: multi_condition_filter and conditions on unknown columns *)

CondOnKnownColumn(c) == HasColumn(df, c.column)

C13_Case ==
    /\ Filtered
    /\ \E i \in 1..Len(conds) : ~CondOnKnownColumn(conds[i])

\* C13: multi_condition_filter ignores a condition whose column is not in the
\* table: no error is raised, the result is the result of the call without
\* that condition, and the table itself when every condition is of that kind
C13_UnknownColumnIgnored ==
    C13_Case =>
        /\ result.kind = "table"
        /\ result = MultiConditionFilter(df, SelectSeq(conds, CondOnKnownColumn), logic)
        /\ (\A i \in 1..Len(conds) : ~CondOnKnownColumn(conds[i])) => result.table = df

\* a condition on an unknown column stood first in a list whose other
\* condition kept some rows of the table and dropped others
C13_Witness ==
    /\ C13_Case
    /\ Len(conds) >= 2
    /\ ~CondOnKnownColumn(conds[1])
    /\ result.kind = "table"
    /\ result.table.rows # <<>>
    /\ Len(result.table.rows) < Len(df.rows)

---------------------------------------------------------------------------
(* group_by_aggregate *)

\* a call of group_by_aggregate has returned or raised
Aggregated == pc = "done" /\ op = "group_by_aggregate"

\* the number of rows of the table that hold k in column g
RowsInGroup(t, g, k) ==
    Cardinality({i \in 1..Len(t.rows) : t.rows[i].cells[g] = k})

\* the names the function documents, compared in lower case
DocumentedFunctions == {"sum", "mean", "average", "count", "max", "min", "std", "stddev"}

\* C14: group_by_aggregate with the function 'count' reports for every group
\* the number of rows of the table in that group, in every aggregated column,
\* also when the aggregated column holds missing values.
C14_CountIsGroupSize ==
    Aggregated /\ Lower(args.agg_function) = "count" /\ result.kind = "table" =>
        \A j \in 1..Len(result.table.rows) :
            \A c \in Columns(result.table) \ {args.group_by} :
                result.table.rows[j].cells[c] =
                    Int2V(RowsInGroup(df, args.group_by,
                                      result.table.rows[j].cells[args.group_by]))

\* C15: when agg_column is given, the result of group_by_aggregate has exactly
\* the group column and agg_column; a given agg_column that is no column of the
\* table does not lead to the aggregation of every numeric column.
C15_OnlyTheGivenColumn ==
    Aggregated /\ args.agg_column # "" /\ result.kind = "table" =>
        result.table.cols = <<args.group_by, args.agg_column>>

\* C16: group_by_aggregate raises column-not-found when the group column is
\* not in the table; with agg_column given and a function name outside the
\* documented ones it raises the unknown-function error; every documented
\* name is accepted in the single-column path and in the all-numeric path.
C16_ErrorsAndAcceptedNames ==
    Aggregated =>
        /\ ~HasColumn(df, args.group_by) => result = Raised(ColumnNotFound)
        /\ ( /\ HasColumn(df, args.group_by)
             /\ args.agg_column # ""
             /\ Lower(args.agg_function) \notin DocumentedFunctions )
           => result = Raised(UnknownFunctionError)
        /\ ( /\ HasColumn(df, args.group_by)
             /\ Lower(args.agg_function) \in DocumentedFunctions )
           => result.kind = "table"

---------------------------------------------------------------------------
(* advanced_group_by *)

\* a call of one of the two versions of advanced_group_by has returned or raised
AdvancedGrouped ==
    pc = "done" /\ op \in {"advanced_group_by", "advanced_data_tools.advanced_group_by"}

RECURSIVE DocumentedNames(_)
\* the documented output names of an aggregations dict: the column itself for
\* one function, <column>_<function> per function for several
DocumentedNames(aggs) ==
    IF aggs = <<>> THEN <<>>
    ELSE LET a == aggs[1]
         IN  (IF Len(a.funcs) = 1 THEN <<a.column>>
              ELSE [i \in 1..Len(a.funcs) |-> a.column \o "_" \o a.funcs[i]])
                \o DocumentedNames(Tail(aggs))

\* the call names a group column and at least one aggregated column, all of
\* them columns of the table
C17_Case ==
    /\ AdvancedGrouped
    /\ HasColumn(df, args.group_by)
    /\ args.aggregations # <<>>
    /\ \A i \in 1..Len(args.aggregations) : HasColumn(df, args.aggregations[i].column)

\* C17: advanced_group_by returns a table whose columns are the group column,
\* then for every column of the aggregations dict its own name when it has
\* one function and <column>_<function> per function when it has several;
\* the output has one column per group column and per (column, function) pair.
C17_DocumentedColumnNames ==
    C17_Case =>
        /\ result.kind = "table"
        /\ result.table.cols = <<args.group_by>> \o DocumentedNames(args.aggregations)
        /\ Len(result.table.cols) = 1 + Len(AggPairs(args.aggregations))

---------------------------------------------------------------------------
(* parse_text_to_dataframe and extract_dataframe_from_result *)

\* a call of parse_text_to_dataframe has returned
ParsedText == pc = "done" /\ op = "parse_text_to_dataframe"

\* a call of extract_dataframe_from_result has returned or raised
Extracted == pc = "done" /\ op = "extract_dataframe_from_result"

\* the text of the example: a header, a separator and two data rows
PipeExample == JoinLines(<<"| A | B |", "|---|---|", "| 1 | 2 |", "| 3 | 4 |">>)

\* some header or some cell of the table holds ---
HoldsSeparator(t) ==
    \/ \E j \in 1..Len(t.cols) : Contains(t.cols[j], "---")
    \/ \E i \in 1..Len(t.rows) : \E j \in 1..Len(t.cols) :
          Contains(t.rows[i].cells[j].str, "---")

\* C18: in the table that parse_text_to_dataframe reads from a text no header
\* and no cell comes from a line with ---, whether the line starts with a
\* pipe or not; the example text gives the columns A, B and exactly the rows
\* (1, 2) and (3, 4).
C18_SeparatorsSkipped ==
    ParsedText =>
        /\ result.kind = "table" => ~HoldsSeparator(result.table)
        /\ args.result_text = PipeExample =>
              result = Returned(Frame(<<"A", "B">>, <<<<"1", "2">>, <<"3", "4">>>>))

\* the header and the data rows that the pipe strategy has in hand
CleanedOfText == CleanedLines(TableLines(ScanText(args.result_text), FALSE))

\* a row brought to the width n: padded with empty cells or cut
ToWidth(row, n) == [j \in 1..n |-> IF j <= Len(row) THEN StrV(row[j]) ELSE StrV("")]

\* parse_text_to_dataframe was called on a text with a pipe table of a header
\* and at least one data row
C19_Case == ParsedText /\ Len(CleanedOfText) > 1

\* C19: the pipe strategy succeeds on every such text, also when a data row
\* has more cells than the header; every row of its table has as many cells
\* as the table has columns, and while no column is dropped the rows are the
\* data rows padded or cut to the width of the header.
C19_RowsBroughtToHeaderWidth ==
    C19_Case =>
        /\ result.kind = "table"
        /\ Len(result.table.rows) = Len(CleanedOfText) - 1
        /\ \A i \in 1..Len(result.table.rows) :
              /\ Len(result.table.rows[i].cells) = Len(result.table.cols)
              /\ Len(result.table.cols) = Len(CleanedOfText[1]) =>
                    result.table.rows[i].cells
                        = ToWidth(CleanedOfText[i + 1], Len(CleanedOfText[1]))

\* C20: extract_dataframe_from_result never raises, and it returns None when
\* the text holds no pipe table, no correlation triple and nothing for
\* pd.read_csv and the query holds none of the keywords.
C20_AbsentWithoutStructure ==
    Extracted =>
        /\ result.kind # "error"
        /\ ( /\ ParseTextToDataframe(args.result_text) = ReturnedNone
             /\ \A w \in QueryWords : ~Contains(Lower(query), w) )
           => result = ReturnedNone

\* the query of the call names a column of the table after "order by" or
\* "sort by"
ReexecutionApplies == QueryFallback(df, query) # {ReturnedNone}

\* C21: the strategies of extract_dataframe_from_result run in the stated
\* order and the first success wins: a table found in the text is returned;
\* when the text holds none and the query sorts on a column of the table, the
\* table is returned sorted as the query says (and limited); the text is made
\* a single cell only when that re-execution does not apply.
C21_ReexecutionBeforeCoercion ==
    Extracted =>
        LET parsed_df == ParseTextToDataframe(args.result_text)
        IN  /\ parsed_df # ReturnedNone => result = parsed_df
            /\ parsed_df = ReturnedNone /\ ReexecutionApplies
                => result \in QueryFallback(df, query)
            /\ result = Returned(FormatAsTable(args.result_text))
                => parsed_df = ReturnedNone /\ ~ReexecutionApplies

Analysed == pc = "done" /\ op = "distribution_analysis" /\ result.kind = "record"

\* C22: distribution_analysis labels the skewness by the thresholds only:
\* "Approximately Normal" exactly when |skew| < 0.5, the right-skewed label
\* exactly when skew > 0.5, the left-skewed label exactly when skew < -0.5.
C22_SkewnessThresholds ==
    Analysed =>
        /\ record.distribution_type = ApproximatelyNormal <=> AbsBelowHalf(record.skewness)
        /\ record.distribution_type = RightSkewed <=> AboveHalf(record.skewness)
        /\ record.distribution_type = LeftSkewed <=> BelowMinusHalf(record.skewness)

OutliersDetected == pc = "done" /\ op = "detect_outliers"

\* the rows of the table beyond the IQR fences of a column
RowsBeyondFences(col) == KeepRows(df.rows, IqrMask(df, col))

\* C23: for a numeric column detect_outliers with method iqr succeeds and
\* returns exactly the rows below Q1 - 1.5 IQR or above Q3 + 1.5 IQR, the row
\* 100 for the column [1, 2, 3, 4, 100]; only a non-numeric column gives the
\* must-be-numeric error.
C23_IqrOutliers ==
    OutliersDetected /\ HasColumn(df, args.column) =>
        /\ df.dtypes[args.column] = "num" /\ Lower(args.method) = "iqr" =>
              /\ result.kind = "table"
              /\ result.table.rows = RowsBeyondFences(args.column)
        /\ result.error = MustBeNumeric => df.dtypes[args.column] # "num"

FeaturesRanked == pc = "done" /\ op = "feature_importance"

\* the numeric columns of the table other than the target
OtherNumericColumns == {c \in Columns(df) : df.dtypes[c] = "num" /\ c # args.target_column}

\* the absolute correlation and the rank in the i-th row of the result
AbsoluteAt(i) == result.table.rows[i].cells[AbsoluteColumn]
RankAt(i) == result.table.rows[i].cells[RankColumn]

\* the ranks of the result read in row order are 1, 2, ..., N
RanksInRowOrder == \A i \in 1..Len(result.table.rows) : RankAt(i) = Int2V(i)

\* one row per numeric column other than the target
OneRowPerFeature ==
    /\ Len(result.table.rows) = Cardinality(OtherNumericColumns)
    /\ \A c \in OtherNumericColumns :
          \E i \in 1..Len(result.table.rows) :
              result.table.rows[i].cells[FeatureColumn] = StrV(c)

TextTarget ==
    /\ df.dtypes[args.target_column] = "obj"
    /\ Len(df.rows) > 0
    /\ OtherNumericColumns # {}

C25_NoMutationNewTable ==
    [][ /\ df' = df
        /\ (pc' = "done" /\ result'.kind = "table") => ~result'.is_input ]_vars

ToolReplied == pc = "done" /\ op \in {"query_data", "execute_sql_query"}

\* C26: when the call of execute_complex_query inside query_data or
\* execute_sql_query fails, the tool returns a text that starts with "Error:"
\* and lists the columns of the table; no exception leaves the tool.
C26_FailureIsErrorText ==
    ToolReplied /\ result.kind = "error" =>
        /\ StartsAt(reply.text, 1, "Error:")
        /\ Contains(reply.text, "Available columns: " \o ReprList(df.cols))
        /\ reply.tables = <<>>

\* query_data got a ValueError from float() and a TypeError from a comparison
C26_Witness ==
    /\ ToolReplied
    /\ op = "query_data"
    /\ result.kind = "error"
    /\ df.cols = SessionColumns
    /\ reply.text = "Error: could not convert string to float. Available columns: ['amt', 'st']"

\* C30: when its call of execute_complex_query on a table that has rows
\* returns a table without rows, query_data answers with the empty query
\* result, "Query Results (0 rows)", as execute_sql_query does, and shows no
\* row and no summary of the table it was given.
C30_EmptyResultReported ==
    /\ ToolReplied
    /\ Len(df.rows) > 0
    /\ result.kind = "table"
    /\ Len(result.table.rows) = 0
    => /\ StartsAt(reply.text, 1, "Query Results (0 rows)")
       /\ reply.tables = <<result.table>>

Tested == pc = "done" /\ op = "hypothesis_test"

TTestAsked == Lower(args.test_type) \in {"ttest", "t-test"}

\* C27: on an existing numeric column hypothesis_test with type ttest and no
\* value returns a dict with an 'error' entry and does not raise; with a
\* value, and for type normality, the dict returned states the null
\* hypothesis and a flag decided at alpha = 0.05.
C27_ErrorRecordAndFlags ==
    (Tested /\ HasColumn(df, args.column) /\ df.dtypes[args.column] = "num") =>
        /\ (TTestAsked /\ args.value = <<>>) =>
              (result.kind = "record" /\ "error" \in record.keys)
        /\ (((TTestAsked /\ args.value # <<>>) \/ Lower(args.test_type) = "normality")
               /\ result.kind = "record") =>
              /\ "null_hypothesis" \in record.keys
              /\ record.significant \in {"Yes", "No"} \/ record.normal \in {"Yes", "No"}

\* a name that holds an upper-case letter
HasUpper(s) == \E i \in 1..Len(s) : Ch(s, i) \in UpperChars

\* a clause written on a column of the table whose name holds an upper-case
\* letter
OnCapitalColumn(c) == HasUpper(c.column) /\ HasColumn(df, c.column)

OtherClause(c) == ~OnCapitalColumn(c)

\* the command without the clauses on such columns
WithoutCapitalClauses == JoinClauses(SelectSeq(clauses, OtherClause))

CapitalWritten ==
    /\ pc = "done"
    /\ op \in {"execute_complex_query", "parse_natural_language_query"}
    /\ \E i \in 1..Len(clauses) : OnCapitalColumn(clauses[i])

\* C28: a clause naming a column whose name holds an upper-case letter is
\* never applied: execute_complex_query and parse_natural_language_query
\* give what they give for the command without the ORDER BY, WHERE and GROUP
\* BY clauses on such columns.
C28_CapitalClauseAsIfAbsent ==
    CapitalWritten =>
        /\ op = "execute_complex_query" =>
              result \in ExecuteComplexQueryOn(df, ExecuteMatchesOf[WithoutCapitalClauses])
        /\ op = "parse_natural_language_query" =>
              LET p == ParseOn(df, ParseMatchesOf[WithoutCapitalClauses])
              IN  /\ (result.kind = "error") = p.raised
                  /\ parsed = p.operations

\* the cells of the rows of a table, in row order
RowCellsOf(t) == [i \in 1..Len(t.rows) |-> t.rows[i].cells]

\* two outcomes with the same rows in the same order, or two failures
SameRows(a, b) ==
    /\ a.kind = b.kind
    /\ a.kind = "table" => a.table.cols = b.table.cols /\ RowCellsOf(a.table) = RowCellsOf(b.table)

BothPathsCalled == pc = "done" /\ op \in {"execute_complex_query", "complex_query"}

\* C29: complex_query and execute_complex_query agree: on every table and
\* command what one of them returns, the other returns too, the same rows in
\* the same order, also when WHERE stands with LIMIT or with ORDER BY.
C29_PathsAgree ==
    BothPathsCalled =>
        /\ op = "execute_complex_query" =>
              \E other \in ComplexQueryOn(df, ParseMatchesOf[query]) : SameRows(result, other)
        /\ op = "complex_query" =>
              \E other \in ExecuteComplexQueryOn(df, ExecuteMatchesOf[query]) :
                  SameRows(result, other)

============================================================================
